---- MODULE Spec2Model ----
(***************************************************************************)
(* Client-side pipeline / DAG construction and execution engine of the     *)
(* bulk page (bulk.js, script.js) and the single-cell page (sc.js).        *)
(*                                                                         *)
(* Abstractions: node labels, parameter maps and DOM rendering are left    *)
(* out (no modelled decision reads them); of the texts shown, the headline *)
(* of each message is kept, not its rows; a node id is a token of IdPool;  *)
(* channel and branch names are the strings of the source.                 *)
(***************************************************************************)
EXTENDS Integers, Sequences, FiniteSets, TLC

\* ------------------------------------------------------------------ bounds
\* Size of the pool of node ids randomId() draws from, hence the largest DAG.
MaxNodes == 3
\* Cap on NODE_COUNTER (number of addNode calls that create a node).
MaxAdds == 3
\* Explicit connect calls are made while the edge list is shorter than this.
MaxEdges == 2
\* The same cap for the graphs topoOrder is applied to.
MaxTopoEdges == 4
\* Largest DAG a run is started on.
MaxRunNodes == 4
\* Largest DAG of the runs against partial backend states.
MaxArtifactNodes == 2
\* Largest DAG of the runs that overlap.
MaxOverlapNodes == 2
\* Most POST /session/start requests the single-cell page is followed through.
MaxStarts == 4
\* Longest single-cell flow.
MaxFlow == 3
\* Most checkboxes checked at once on the bulk page.
MaxPipeline == 2
\* Number of runLinearPipeline invocations in progress at once.
MaxLinRuns == 2

VARIABLES
  DAG_STATE,          \* bulk.js:2   [nodes: Seq(node), edges: Seq(edge)], nodes in key order
  CHANNEL_ARTIFACTS,  \* bulk.js:6   channel -> [nodeId, value]
  UNIT_META,          \* bulk.js:83  unit id -> meta record (addNode mutates .branches)
  NODE_COUNTER,       \* bulk.js:91
  lastCall,           \* the operation invoked last, its return value, and (connect) its arguments or (runs) the requests it sent
  SESSION_STATE,      \* script.js:439 window.__SESSION_STATE__: [current, aux: names with a value]
  run,                \* script.js:768 the locals of the runDagPipeline invocation
  runCalls,           \* the POST /run requests the latest run invocation issued, in order
  display,            \* script.js:77-118 what pipeMsg / setRunStatus / #validation / branch rows show
  page,               \* the page loaded: "bulk" (script.js, bulk.js) or "sc" (sc.js)
  startPc,            \* script.js:128 where the startSession invocation of the page load stands
  BULK_MODE,          \* bulk.js:596 window.__BULK_MODE
  PIPELINE,           \* script.js:4   unit ids in click order
  checked,            \* script.js:485 the units whose "Add to pipeline" box is checked
  maskCard,           \* script.js:681 inputs of the mask_primers card: [variant, vFilled]
  linRuns,            \* script.js:739 the locals of the runLinearPipeline invocations in progress
  linPending,         \* the POST /run requests of the linear runs in flight: [run, index, unit]
  FLOW,               \* sc.js:4     unit ids of the flow
  running,            \* sc.js:5
  scRun,              \* sc.js:337   the locals of the runFlow invocation
  scDisplay,          \* sc.js       what #pstate and #validation show
  scPending,          \* the POST /run requests of runFlow in flight: [index, unitId]
  rerun,              \* script.js:768 the locals of a runDagPipeline invocation made while `run` is active
  scSession           \* sc.js:2, 17-27 [SID, posts: POST /session/start issued so far, pending: those in flight]

dagVars == <<DAG_STATE, CHANNEL_ARTIFACTS, UNIT_META, NODE_COUNTER>>
runVars == <<SESSION_STATE, run, runCalls, display, rerun>>
bulkVars == <<BULK_MODE, PIPELINE, checked, maskCard, linRuns, linPending>>
scVars == <<FLOW, running, scRun, scDisplay, scPending>>
pageVars == <<page, startPc, scSession>>
linearVars == <<pageVars, bulkVars, scVars>>

\* ------------------------------------------------------- JS array helpers
\* Array.prototype.includes
Includes(seq, x) == \E i \in 1..Len(seq) : seq[i] = x

\* Array.prototype.filter for "value not equal" style predicates is written
\* with SelectSeq at each use; ToSet gives the elements of an array.
ToSet(seq) == {seq[i] : i \in 1..Len(seq)}

\* produced.filter(ch => consumes.includes(ch))
Intersect(produced, consumes) ==
  LET keep(ch) == Includes(consumes, ch) IN SelectSeq(produced, keep)

\* The value JS yields for a missing object key / array element.
Undefined == "undefined"

\* DAG_STATE.nodes[id]
NodeIds(nodes) == {nodes[i].id : i \in 1..Len(nodes)}

GetNode(nodes, id) ==
  IF id \in NodeIds(nodes)
    THEN nodes[CHOOSE i \in 1..Len(nodes) : nodes[i].id = id]
    ELSE Undefined

\* ------------------------------------------------------------- unit meta
Channels == {"R1", "R2", "MERGED"}

\* The three structurally different units of DEFAULT_UNIT_META; maskprimers
\* and buildcons have the fields of filterseq.
DEFAULT_UNIT_META ==
  [ filterseq |->
      [consumes |-> <<"R1">>, produces |-> <<"R1">>, branches |-> <<"R1", "R2">>,
       dynamicBranch |-> TRUE, branchTarget |-> ""],
    pairseq |->
      [consumes |-> <<"R1", "R2">>, produces |-> <<"MERGED">>, branches |-> <<"MERGED">>,
       dynamicBranch |-> FALSE, branchTarget |-> "MERGED"],
    assemble_pairs |->
      [consumes |-> <<"MERGED">>, produces |-> <<"MERGED">>, branches |-> <<"MERGED">>,
       dynamicBranch |-> FALSE, branchTarget |-> "MERGED"] ]

Units == DOMAIN DEFAULT_UNIT_META

\* Pool of tokens randomId() returns.
IdPool == 1..MaxNodes

\* The tokens a randomId() call can return that are the id of no node: the
\* call of AddNode. AddNodeRandom is the call that can return any token.
randomId(nodes) == IdPool \ NodeIds(nodes)

\* ------------------------------------------------------ ensureNodeDefaults
\* Mutant: a dynamic-branch node is treated like any other node.
ensureNodeDefaults_noRecompute(node, metaMap) ==
  IF node.unitId \notin DOMAIN metaMap THEN node
  ELSE
    LET meta == metaMap[node.unitId] IN
    [node EXCEPT !.consumes = IF Len(@) = 0 THEN meta.consumes ELSE @,
                 !.produces = IF Len(@) = 0 THEN meta.produces ELSE @]

ensureNodeDefaults(node, metaMap) ==
  IF node.unitId \notin DOMAIN metaMap THEN node
  ELSE
    LET meta == metaMap[node.unitId] IN
    IF meta.dynamicBranch
      THEN LET branch == IF Includes(meta.branches, node.branch)
                           THEN node.branch ELSE meta.branches[1]
               branchChannel == IF branch = "R2" THEN "R2" ELSE "R1"
           IN [node EXCEPT !.branch = branch,
                           !.consumes = <<branchChannel>>,
                           !.produces = <<branchChannel>>]
      ELSE [node EXCEPT !.consumes = IF Len(@) = 0 THEN meta.consumes ELSE @,
                        !.produces = IF Len(@) = 0 THEN meta.produces ELSE @]

\* ensureNodeDefaults applied in place to the node with this id.
EnsureAt(nodes, id, metaMap) ==
  [i \in 1..Len(nodes) |->
     IF nodes[i].id = id THEN ensureNodeDefaults(nodes[i], metaMap) ELSE nodes[i]]

\* renderGraph: the only model state it touches is ensureNodeDefaults on every node.
renderGraph(dag, metaMap) ==
  [dag EXCEPT !.nodes =
     [i \in 1..Len(dag.nodes) |-> ensureNodeDefaults(dag.nodes[i], metaMap)]]

\* ------------------------------------------------------------ connectNodes
\* incomingMap.set(fromId, entry): replaces the entry of that source in
\* place, or appends it.
SetIncoming(incoming, entry) ==
  IF \E i \in 1..Len(incoming) : incoming[i].node = entry.node
    THEN [i \in 1..Len(incoming) |->
            IF incoming[i].node = entry.node THEN entry ELSE incoming[i]]
    ELSE Append(incoming, entry)

\* Mutant: the edge carries everything the target consumes.
ValidChannels_targetConsumes(dag, metaMap, fromId, toId) ==
  LET target == GetNode(dag.nodes, toId)
  IN IF Len(target.consumes) > 0 THEN target.consumes
     ELSE IF target.unitId \in DOMAIN metaMap
            THEN metaMap[target.unitId].consumes ELSE <<>>

\* The channel list an accepted edge carries; <<>> when the call is rejected.
ValidChannels(dag, metaMap, fromId, toId) ==
  LET source == GetNode(dag.nodes, fromId)
      target == GetNode(dag.nodes, toId)
      targetConsumes ==
        IF Len(target.consumes) > 0 THEN target.consumes
        ELSE IF target.unitId \in DOMAIN metaMap
               THEN metaMap[target.unitId].consumes ELSE <<>>
  IN Intersect(source.produces, targetConsumes)

\* DAG_STATE after connectNodes pushed the edge and set the target's incoming entry
PushEdge(dag, fromId, toId, validChannels) ==
  [nodes |->
     [i \in 1..Len(dag.nodes) |->
        IF dag.nodes[i].id = toId
          THEN [dag.nodes[i] EXCEPT !.incoming =
                  SetIncoming(@, [node |-> fromId, channels |-> validChannels])]
          ELSE dag.nodes[i]],
   edges |-> Append(dag.edges,
               [from |-> fromId, to |-> toId, channels |-> validChannels])]

\* Mutant: the test fromId === toId is left out.
ConnectRefused_noSelfTest(dag, fromId, toId) ==
  \/ fromId \notin NodeIds(dag.nodes) \/ toId \notin NodeIds(dag.nodes)
  \/ \E i \in 1..Len(dag.edges) :
       dag.edges[i].from = fromId /\ dag.edges[i].to = toId

\* The early returns of connectNodes before the channels are looked at.
ConnectRefused(dag, fromId, toId) ==
  \/ fromId = toId
  \/ fromId \notin NodeIds(dag.nodes) \/ toId \notin NodeIds(dag.nodes)
  \/ \E i \in 1..Len(dag.edges) :
       dag.edges[i].from = fromId /\ dag.edges[i].to = toId

\* Mutant: the edge is pushed without the test for common channels.
connectNodes_noChannelTest(dag, metaMap, fromId, toId) ==
  IF ConnectRefused(dag, fromId, toId) THEN [ok |-> FALSE, dag |-> dag]
  ELSE [ok |-> TRUE,
        dag |-> PushEdge(dag, fromId, toId, ValidChannels(dag, metaMap, fromId, toId))]

\* connectNodes(fromId, toId): [ok |-> return value, dag |-> DAG_STATE afterwards]
connectNodes(dag, metaMap, fromId, toId) ==
  IF ConnectRefused(dag, fromId, toId) THEN [ok |-> FALSE, dag |-> dag]
  ELSE
    LET validChannels == ValidChannels(dag, metaMap, fromId, toId) IN
    IF Len(validChannels) = 0 THEN [ok |-> FALSE, dag |-> dag]
    ELSE [ok |-> TRUE, dag |-> PushEdge(dag, fromId, toId, validChannels)]

\* --------------------------------------------------------------- addNode
\* branch || meta.branchTarget || meta.branches?.[0] || 'R1'
TargetBranch(meta, branch) ==
  IF branch # "" THEN branch
  ELSE IF meta.branchTarget # "" THEN meta.branchTarget
  ELSE IF Len(meta.branches) > 0 THEN meta.branches[1]
  ELSE "R1"

\* meta.branches after addNode made sure it holds the target branch
WithBranch(meta, targetBranch) ==
  IF Includes(meta.branches, targetBranch) THEN meta
  ELSE [meta EXCEPT !.branches = Append(@, targetBranch)]

\* Object.values(DAG_STATE.nodes).filter(node => node.branch === targetBranch)
BranchNodes(nodes, branch) ==
  LET onBranch(n) == n.branch = branch IN SelectSeq(nodes, onBranch)

\* Mutant: the first node of the branch is taken instead of the last.
PreviousOf_first(existingBranchNodes) == existingBranchNodes[1]

\* existingBranchNodes[existingBranchNodes.length - 1] of a non-empty list
PreviousOf(existingBranchNodes) == existingBranchNodes[Len(existingBranchNodes)]

\* DAG_STATE.nodes[id] = newNode: a key the object holds keeps its place and
\* gets the new value, a key it does not hold is added at the end.
PutNode(nodes, node) ==
  IF node.id \in NodeIds(nodes)
    THEN [i \in 1..Len(nodes) |-> IF nodes[i].id = node.id THEN node ELSE nodes[i]]
    ELSE Append(nodes, node)

\* addNode(unitId, branch) for a known unit and the id randomId() returned:
\* [dag, meta, chained] with chained the result of the auto-chain connectNodes
\* call (FALSE when there was no previous node on the branch).
addNode(dag, metaMap, counter, unitId, branch, id) ==
  LET targetBranch == TargetBranch(metaMap[unitId], branch)
      metaMap2 == [metaMap EXCEPT ![unitId] = WithBranch(@, targetBranch)]
      meta == metaMap2[unitId]
      existingBranchNodes == BranchNodes(dag.nodes, targetBranch)
      newNode == [id |-> id, unitId |-> unitId, branch |-> targetBranch,
                  consumes |-> meta.consumes, produces |-> meta.produces,
                  incoming |-> <<>>, status |-> "idle", order |-> counter]
      nodes1 == PutNode(dag.nodes, ensureNodeDefaults(newNode, metaMap2))
      chain ==
        IF Len(existingBranchNodes) = 0
          THEN [ok |-> FALSE, dag |-> [dag EXCEPT !.nodes = nodes1]]
          ELSE LET previous == PreviousOf(existingBranchNodes)
               IN connectNodes([dag EXCEPT !.nodes = EnsureAt(nodes1, previous.id, metaMap2)],
                               metaMap2, previous.id, id)
  IN [dag |-> renderGraph(chain.dag, metaMap2), meta |-> metaMap2, chained |-> chain.ok]

\* -------------------------------------------------------------- removeNode
\* The node of a non-empty set with the largest / smallest order: the last /
\* first element after .sort((a, b) => a.order - b.order).
MaxOrder(S) == CHOOSE n \in S : \A m \in S : m.order <= n.order
MinOrder(S) == CHOOSE n \in S : \A m \in S : n.order <= m.order

\* removeEdge and removeNode filter the edge list
DropEdges(edges, Drop(_)) ==
  LET keep(e) == ~Drop(e) IN SelectSeq(edges, keep)

\* Mutant: the incoming lists are left as they are.
DropIncoming_keep(nodes, toIds, fromId) == nodes

DropIncoming(nodes, toIds, fromId) ==
  [i \in 1..Len(nodes) |->
     IF nodes[i].id \in toIds
       THEN [nodes[i] EXCEPT !.incoming =
               LET keep(entry) == entry.node # fromId IN SelectSeq(@, keep)]
       ELSE nodes[i]]

\* Mutant: only the edges leaving the node are filtered out, and the
\* neighbours are not joined.
removeNode_keepsInEdges(dag, metaMap, nodeId) ==
  LET leaves(e) == e.from = nodeId
      notRemoved(n) == n.id # nodeId
  IN renderGraph([nodes |-> DropIncoming(SelectSeq(dag.nodes, notRemoved),
                                         NodeIds(dag.nodes), nodeId),
                  edges |-> DropEdges(dag.edges, leaves)], metaMap)

\* Mutant: the neighbours are joined from the successor to the predecessor.
removeNode_reversed(dag, metaMap, nodeId) ==
  LET target == GetNode(dag.nodes, nodeId)
      present == nodeId \in NodeIds(dag.nodes)
      branchIncoming ==
        IF ~present THEN {}
        ELSE {n \in ToSet(dag.nodes) :
                /\ \E k \in 1..Len(target.incoming) : target.incoming[k].node = n.id
                /\ n.branch = target.branch}
      branchOutgoing ==
        IF ~present THEN {}
        ELSE {n \in ToSet(dag.nodes) :
                /\ \E k \in 1..Len(dag.edges) :
                     dag.edges[k].from = nodeId /\ dag.edges[k].to = n.id
                /\ n.branch = target.branch}
      touches(e) == e.from = nodeId \/ e.to = nodeId
      notRemoved(n) == n.id # nodeId
      nodes1 == DropIncoming(SelectSeq(dag.nodes, notRemoved), NodeIds(dag.nodes), nodeId)
      dag1 == [nodes |-> nodes1, edges |-> DropEdges(dag.edges, touches)]
      dag2 ==
        IF branchIncoming # {} /\ branchOutgoing # {}
          THEN LET upstream == MaxOrder(branchIncoming)
                   downstream == MinOrder(branchOutgoing)
                   ensured == EnsureAt(EnsureAt(dag1.nodes, upstream.id, metaMap),
                                       downstream.id, metaMap)
               IN connectNodes([dag1 EXCEPT !.nodes = ensured], metaMap,
                               downstream.id, upstream.id).dag
          ELSE dag1
  IN renderGraph(dag2, metaMap)

\* removeNode(nodeId): DAG_STATE afterwards
removeNode(dag, metaMap, nodeId) ==
  LET target == GetNode(dag.nodes, nodeId)
      present == nodeId \in NodeIds(dag.nodes)
      branchIncoming ==
        IF ~present THEN {}
        ELSE {n \in ToSet(dag.nodes) :
                /\ \E k \in 1..Len(target.incoming) : target.incoming[k].node = n.id
                /\ n.branch = target.branch}
      branchOutgoing ==
        IF ~present THEN {}
        ELSE {n \in ToSet(dag.nodes) :
                /\ \E k \in 1..Len(dag.edges) :
                     dag.edges[k].from = nodeId /\ dag.edges[k].to = n.id
                /\ n.branch = target.branch}
      touches(e) == e.from = nodeId \/ e.to = nodeId
      notRemoved(n) == n.id # nodeId
      nodes1 == DropIncoming(SelectSeq(dag.nodes, notRemoved), NodeIds(dag.nodes), nodeId)
      dag1 == [nodes |-> nodes1, edges |-> DropEdges(dag.edges, touches)]
      dag2 ==
        IF branchIncoming # {} /\ branchOutgoing # {}
          THEN LET upstream == MaxOrder(branchIncoming)
                   downstream == MinOrder(branchOutgoing)
                   ensured == EnsureAt(EnsureAt(dag1.nodes, upstream.id, metaMap),
                                       downstream.id, metaMap)
               IN connectNodes([dag1 EXCEPT !.nodes = ensured], metaMap,
                               upstream.id, downstream.id).dag
          ELSE dag1
  IN renderGraph(dag2, metaMap)

\* CHANNEL_ARTIFACTS after removeNode deleted the records of that producer
\* Mutant: the records of the removed node are kept.
DropArtifacts_keep(artifacts, nodeId) == artifacts

DropArtifacts(artifacts, nodeId) ==
  [ch \in {c \in DOMAIN artifacts : artifacts[c].nodeId # nodeId} |-> artifacts[ch]]

\* -------------------------------------------------------------- removeEdge
removeEdge(dag, metaMap, fromId, toId) ==
  LET matches(e) == e.from = fromId /\ e.to = toId
  IN renderGraph([nodes |-> DropIncoming(dag.nodes, {toId}, fromId),
                  edges |-> DropEdges(dag.edges, matches)], metaMap)

\* --------------------------------------------------------------- topoOrder
\* indegree after the first two forEach loops
InitialIndegree(dag) ==
  [id \in NodeIds(dag.nodes) |->
     Cardinality({k \in 1..Len(dag.edges) : dag.edges[k].to = id})]

\* The inner DAG_STATE.edges.forEach for one dequeued node, from edge k on.
\* st = [indegree, queue].  An edge whose target is no key of indegree would
\* make that entry NaN, which never equals 0: nothing is queued for it.
RECURSIVE RelaxEdges(_, _, _, _)
RelaxEdges(edges, k, node, st) ==
  IF k > Len(edges) THEN st
  ELSE IF edges[k].from = node /\ edges[k].to \in DOMAIN st.indegree
    THEN LET to == edges[k].to
             deg == st.indegree[to] - 1
         IN RelaxEdges(edges, k + 1, node,
              [indegree |-> [st.indegree EXCEPT ![to] = deg],
               queue |-> IF deg = 0 THEN Append(st.queue, to) ELSE st.queue])
    ELSE RelaxEdges(edges, k + 1, node, st)

\* while(queue.length){ node = queue.shift(); order.push(node); ... }
RECURSIVE KahnLoop(_, _, _)
KahnLoop(edges, st, order) ==
  IF Len(st.queue) = 0 THEN order
  ELSE LET node == Head(st.queue)
       IN KahnLoop(edges,
                   RelaxEdges(edges, 1, node, [st EXCEPT !.queue = Tail(@)]),
                   Append(order, node))

\* The order Kahn's loop builds, before the length test.
KahnOrder(dag) ==
  LET indegree == InitialIndegree(dag)
      keys == [i \in 1..Len(dag.nodes) |-> dag.nodes[i].id]
      isZero(id) == indegree[id] = 0
  IN KahnLoop(dag.edges, [indegree |-> indegree, queue |-> SelectSeq(keys, isZero)], <<>>)

\* Mutant: the nodes in key order, the edges ignored.
topoOrder_keysOnly(dag) ==
  [null |-> FALSE, order |-> [i \in 1..Len(dag.nodes) |-> dag.nodes[i].id]]

\* Mutant: the length test left out.
topoOrder_noLengthTest(dag) == [null |-> FALSE, order |-> KahnOrder(dag)]

\* topoOrder(): [null |-> TRUE] is the JS null (cycle signal), otherwise the order.
topoOrder(dag) ==
  LET order == KahnOrder(dag)
  IN IF Len(order) # Len(dag.nodes)
       THEN [null |-> TRUE, order |-> <<>>]
       ELSE [null |-> FALSE, order |-> order]

\* ------------------------------------------------- setNodeStatus and others
setNodeStatus(dag, metaMap, id, status) ==
  IF id \in NodeIds(dag.nodes)
    THEN renderGraph([dag EXCEPT !.nodes =
           [i \in 1..Len(dag.nodes) |->
              IF dag.nodes[i].id = id THEN [dag.nodes[i] EXCEPT !.status = status]
              ELSE dag.nodes[i]]], metaMap)
    ELSE dag

\* Mutant: the statuses are left as they are.
resetStatuses_none(dag, metaMap) == renderGraph(dag, metaMap)

\* resetStatuses()
resetStatuses(dag, metaMap) ==
  renderGraph([dag EXCEPT !.nodes =
    [i \in 1..Len(dag.nodes) |-> [dag.nodes[i] EXCEPT !.status = "idle"]]], metaMap)

DAG_BRANCH_KEYS == <<"R1", "R2">>

\* =================================================== DAG editing: actions

InitDag ==
  /\ DAG_STATE = [nodes |-> <<>>, edges |-> <<>>]
  /\ CHANNEL_ARTIFACTS = [ch \in {} |-> 0]
  /\ UNIT_META = DEFAULT_UNIT_META
  /\ NODE_COUNTER = 0

\* addNode(unitId, branch) of a registered unit
AddNode(unitId, branch) ==
  /\ NODE_COUNTER < MaxAdds
  /\ \E id \in randomId(DAG_STATE.nodes) :
       LET r == addNode(DAG_STATE, UNIT_META, NODE_COUNTER, unitId, branch, id)
       IN /\ DAG_STATE' = r.dag
          /\ UNIT_META' = r.meta
          /\ NODE_COUNTER' = NODE_COUNTER + 1
          /\ lastCall' = [op |-> "addNode", ret |-> Undefined]
  /\ UNCHANGED CHANNEL_ARTIFACTS
  /\ UNCHANGED <<runVars, linearVars>>

\* addNode of a unit id UNIT_META does not hold: if(!meta) return
AddUnknownNode ==
  /\ lastCall' = [op |-> "addNode", ret |-> Undefined]
  /\ UNCHANGED dagVars
  /\ UNCHANGED <<runVars, linearVars>>

RemoveNode(nodeId) ==
  /\ DAG_STATE' = removeNode(DAG_STATE, UNIT_META, nodeId)
  /\ CHANNEL_ARTIFACTS' = DropArtifacts(CHANNEL_ARTIFACTS, nodeId)
  /\ lastCall' = [op |-> "removeNode", ret |-> Undefined]
  /\ UNCHANGED <<UNIT_META, NODE_COUNTER>>
  /\ UNCHANGED <<runVars, linearVars>>

Connect(fromId, toId, limit) ==
  /\ Len(DAG_STATE.edges) < limit
  /\ LET r == connectNodes(DAG_STATE, UNIT_META, fromId, toId)
     IN /\ DAG_STATE' = r.dag
        /\ lastCall' = [op |-> "connect", from |-> fromId, to |-> toId, ret |-> r.ok]
  /\ UNCHANGED <<CHANNEL_ARTIFACTS, UNIT_META, NODE_COUNTER>>
  /\ UNCHANGED <<runVars, linearVars>>

Disconnect(fromId, toId) ==
  /\ DAG_STATE' = removeEdge(DAG_STATE, UNIT_META, fromId, toId)
  /\ lastCall' = [op |-> "removeEdge", ret |-> Undefined]
  /\ UNCHANGED <<CHANNEL_ARTIFACTS, UNIT_META, NODE_COUNTER>>
  /\ UNCHANGED <<runVars, linearVars>>

TopoOrder ==
  /\ lastCall' = [op |-> "topoOrder", ret |-> topoOrder(DAG_STATE)]
  /\ UNCHANGED dagVars
  /\ UNCHANGED <<runVars, linearVars>>

vars == <<dagVars, lastCall, runVars, linearVars>>

NoCall == [op |-> "none", ret |-> Undefined]

\* No run was started yet.
NoRun == [pc |-> "none"]

\* sc.js:2 `let SID = null` (0 stands for null, the sessions are 1, 2, ...),
\* and no POST /session/start issued yet.
NoScSession == [SID |-> 0, posts |-> 0, pending |-> {}]

\* The texts of the page as loaded.
InitDisplay ==
  [pipeMsg |-> "", runStatus |-> "", validation |-> "", orderRows |-> <<>>,
   branchRows |-> [b \in ToSet(DAG_BRANCH_KEYS) |->
                     [completed |-> 0, total |-> 0, state |-> ""]]]

InitRunVars ==
  /\ SESSION_STATE = [current |-> {}, aux |-> {}]
  /\ run = NoRun
  /\ runCalls = <<>>
  /\ rerun = NoRun
  /\ display = InitDisplay

\* No runFlow invocation is suspended.
ScIdle == [pc |-> "idle", index |-> 0, totalSteps |-> 0]

InitScDisplay == [pstate |-> [text |-> "idle", step |-> 0], validation |-> ""]

\* A runLinearPipeline invocation slot not in use.
LinIdle == [pc |-> "idle", steps |-> <<>>, i |-> 0]

InitBulkVars ==
  /\ PIPELINE = <<>>
  /\ checked = {}
  /\ maskCard = [variant |-> "align", vFilled |-> FALSE]
  /\ linRuns = [r \in 1..MaxLinRuns |-> LinIdle]
  /\ linPending = {}

InitScVars ==
  /\ FLOW = <<>>
  /\ running = FALSE
  /\ scRun = ScIdle
  /\ scDisplay = InitScDisplay
  /\ scPending = {}

\* The bulk page in paired mode, where the DAG builder is used.
InitDagPage ==
  /\ page = "bulk"
  /\ startPc = "done"
  /\ scSession = NoScSession
  /\ BULK_MODE = "paired"
  /\ InitBulkVars
  /\ InitScVars

Init ==
  /\ InitDag
  /\ lastCall = NoCall
  /\ InitRunVars
  /\ InitDagPage

\* The branch arguments the page passes for a unit: none, or a declared branch
\* (palette buttons, determineDagBranch).
DeclaredBranchArgs(unitId) == {""} \cup ToSet(UNIT_META[unitId].branches)

Next ==
  \/ \E u \in Units : \E b \in DeclaredBranchArgs(u) : AddNode(u, b)
  \/ AddUnknownNode
  \/ \E id \in IdPool : RemoveNode(id)
  \/ \E f \in IdPool, t \in IdPool : Connect(f, t, MaxEdges)
  \/ \E f \in IdPool, t \in IdPool : Disconnect(f, t)
  \/ TopoOrder

Spec == Init /\ [][Next]_vars

\* ---- nodes created through window.BulkDag.createNode
\* determineDagBranch(meta, selections) of script.js, with channel the first
\* non-empty channel of the selections ("" when there is none).
determineDagBranch(meta, channel) ==
  IF meta.branchTarget # "" THEN meta.branchTarget
  ELSE IF meta.dynamicBranch
    THEN IF channel # "" THEN channel
         ELSE IF Len(meta.branches) > 0 THEN meta.branches[1] ELSE "R1"
  ELSE IF channel # "" /\ Includes(meta.branches, channel) THEN channel
  ELSE IF Len(meta.branches) > 0 THEN meta.branches[1]
  ELSE IF channel # "" THEN channel ELSE "R1"

\* The channel of the first file selected on a card's DAG controls: a
\* dynamic-branch unit offers files of R1, R2 or of no known channel, pairseq
\* has its first select fixed to R1, assemble_pairs to MERGED.
SelectionChannels(unitId) ==
  IF unitId = "pairseq" THEN {"R1"}
  ELSE IF unitId = "assemble_pairs" THEN {"MERGED"}
  ELSE {"", "R1", "R2"}

\* The "Add to DAG" button of a card: createNode(unit.id, determineDagBranch(..))
AddToDag(unitId, channel) ==
  AddNode(unitId, determineDagBranch(UNIT_META[unitId], channel))

\* createNode(unitId, branch) called with any branch, declared by the unit or not
BranchArgs == {""} \cup Channels

NextCreate ==
  \/ \E u \in Units : \E ch \in SelectionChannels(u) : AddToDag(u, ch)
  \/ \E u \in Units : \E b \in BranchArgs : AddNode(u, b)
  \/ \E id \in IdPool : RemoveNode(id)

SpecCreate == Init /\ [][NextCreate]_vars

\* ---- topoOrder on arbitrary edge sets over mutually connectable nodes
NextTopo ==
  \/ \E b \in {"R1", "R2"} : AddNode("filterseq", b)
  \/ \E f \in IdPool, t \in IdPool : Connect(f, t, MaxTopoEdges)
  \/ \E f \in IdPool, t \in IdPool : Disconnect(f, t)
  \/ TopoOrder

SpecTopo == Init /\ [][NextTopo]_vars

\* ======================================================= DAG run (script.js)

\* What a POST /run can come to: a success response, a non-success response,
\* or a request that cannot complete.
RunOutcomes == {"ok", "http_error", "network_error"}

\* runDagNode(node): the result object for each outcome of the request.
runDagNode(outcome) ==
  IF outcome = "ok" THEN [ok |-> TRUE, error |-> ""]
  ELSE IF outcome = "http_error" THEN [ok |-> FALSE, error |-> "detail.error"]
  ELSE [ok |-> FALSE, error |-> "err.message"]

\* What the backend reports on GET /state after a successful run of a DAG
\* node: the session holds a current artifact for every channel.
BackendStates == {[current |-> Channels, aux |-> {}]}

\* Mutant: the test of currentState[ch] is left out.
recordChannelArtifacts_anyValue(artifacts, dag, nodeId, current) ==
  IF nodeId \notin NodeIds(dag.nodes) THEN artifacts
  ELSE
    LET node == GetNode(dag.nodes, nodeId)
        hit == ToSet(node.produces)
    IN [ch \in (DOMAIN artifacts) \cup hit |->
          IF ch \in hit THEN [nodeId |-> nodeId, value |-> ch] ELSE artifacts[ch]]

\* recordChannelArtifacts(nodeId, currentState)
recordChannelArtifacts(artifacts, dag, nodeId, current) ==
  IF nodeId \notin NodeIds(dag.nodes) THEN artifacts
  ELSE
    LET node == GetNode(dag.nodes, nodeId)
        hit == {ch \in ToSet(node.produces) : ch \in current}
    IN [ch \in (DOMAIN artifacts) \cup hit |->
          IF ch \in hit THEN [nodeId |-> nodeId, value |-> ch] ELSE artifacts[ch]]

\* setBranchProgress(branch, completed, total, state): what the branch row shows
setBranchProgress(branchRows, branch, completed, total, state) ==
  IF branch \in DOMAIN branchRows
    THEN [branchRows EXCEPT ![branch] =
            [completed |-> completed, total |-> total, state |-> state]]
    ELSE branchRows

\* The locals of runDagPipeline after its set-up (script.js:787-829).
\* W bundles what scheduleNode and the runners write: [dag, artifacts, ctx, calls, display].
Dependents(edges, nodeId) ==
  LET fromNode(e) == e.from = nodeId
      outgoing == SelectSeq(edges, fromNode)
  IN [k \in 1..Len(outgoing) |-> outgoing[k].to]

\* Mutant: the incoming edges are not counted.
RunIndegree_zero(nodes, edges) == [id \in NodeIds(nodes) |-> 0]

RunIndegree(nodes, edges) ==
  [id \in NodeIds(nodes) |-> Cardinality({k \in 1..Len(edges) : edges[k].to = id})]

BranchTotals(nodes) ==
  [b \in ToSet(DAG_BRANCH_KEYS) |->
     Cardinality({i \in 1..Len(nodes) : nodes[i].branch = b})]

NewRun(dag) ==
  [pc |-> "active",
   nodes |-> [i \in 1..Len(dag.nodes) |->
                [id |-> dag.nodes[i].id, unitId |-> dag.nodes[i].unitId,
                 branch |-> dag.nodes[i].branch]],
   edges |-> dag.edges,
   indegree |-> RunIndegree(dag.nodes, dag.edges),
   branchTotals |-> BranchTotals(dag.nodes),
   branchCompleted |-> [b \in ToSet(DAG_BRANCH_KEYS) |-> 0],
   total |-> Len(dag.nodes),
   completed |-> 0,
   succeeded |-> {}, failed |-> {}, scheduled |-> {}, aborted |-> FALSE,
   active |-> {}]

\* DAG_BRANCH_KEYS.forEach(branch => setBranchProgress(branch, 0, branchTotals[branch]))
StartRows(ctx) ==
  [b \in ToSet(DAG_BRANCH_KEYS) |-> [completed |-> 0, total |-> ctx.branchTotals[b], state |-> ""]]

\* The guard of scheduleNode: if(aborted || scheduled.has(nodeId) || failed.has(nodeId)) return
ScheduleRefused(ctx, nodeId) ==
  \/ ctx.aborted
  \/ nodeId \in ctx.scheduled
  \/ nodeId \in ctx.failed
  \/ nodeId \notin NodeIds(ctx.nodes)

\* scheduleNode(nodeId) up to the runner's first await: the node is marked
\* scheduled and running and its POST /run is issued.
scheduleNode(W, meta, nodeId) ==
  IF ScheduleRefused(W.ctx, nodeId) THEN W
  ELSE [W EXCEPT !.ctx.scheduled = @ \cup {nodeId},
                 !.ctx.active = @ \cup {nodeId},
                 !.dag = setNodeStatus(@, meta, nodeId, "running"),
                 !.display.runStatus = "Running",
                 !.calls = Append(@, nodeId)]

RECURSIVE ScheduleAll(_, _, _, _)
\* ids.forEach(scheduleNode), from position k on
ScheduleAll(W, meta, ids, k) ==
  IF k > Len(ids) THEN W
  ELSE ScheduleAll(scheduleNode(W, meta, ids[k]), meta, ids, k + 1)

\* Mutant: a dependent is scheduled as soon as one predecessor succeeded.
ReleaseDependent_eager(W, meta, depId) ==
  IF depId \in W.ctx.failed THEN W
  ELSE scheduleNode([W EXCEPT !.ctx.indegree[depId] = 0], meta, depId)

\* The body of (dependents[nodeId] || []).forEach(depId => ...)
ReleaseDependent(W, meta, depId) ==
  IF depId \in W.ctx.failed THEN W
  ELSE
    LET deg == IF W.ctx.indegree[depId] - 1 > 0 THEN W.ctx.indegree[depId] - 1 ELSE 0
        W1 == [W EXCEPT !.ctx.indegree[depId] = deg]
    IN IF deg = 0 THEN scheduleNode(W1, meta, depId) ELSE W1

RECURSIVE ReleaseAll(_, _, _, _)
ReleaseAll(W, meta, deps, k) ==
  IF k > Len(deps) THEN W
  ELSE ReleaseAll(ReleaseDependent(W, meta, deps[k]), meta, deps, k + 1)

\* Mutant: a success is not counted for its branch.
recordBranchSuccess_notCounted(W, branchKey) == W

\* recordBranchSuccess(branchKey)
recordBranchSuccess(W, branchKey) ==
  IF branchKey \notin DOMAIN W.ctx.branchTotals \/ W.ctx.branchTotals[branchKey] = 0 THEN W
  ELSE
    LET c == IF W.ctx.branchCompleted[branchKey] + 1 < W.ctx.branchTotals[branchKey]
               THEN W.ctx.branchCompleted[branchKey] + 1 ELSE W.ctx.branchTotals[branchKey]
    IN [W EXCEPT !.ctx.branchCompleted[branchKey] = c,
                 !.display.branchRows = setBranchProgress(@, branchKey, c,
                                          W.ctx.branchTotals[branchKey], "")]

\* markBranchState(branchKey, state)
markBranchState(W, branchKey, state) ==
  IF branchKey \notin DOMAIN W.ctx.branchTotals THEN W
  ELSE [W EXCEPT !.display.branchRows = setBranchProgress(@, branchKey,
                    W.ctx.branchCompleted[branchKey], W.ctx.branchTotals[branchKey], state)]

\* The runner of scheduleNode after `await runDagNode(node)`, success branch.
RunnerSucceeded(W, meta, nodeId, current) ==
  LET node == GetNode(W.ctx.nodes, nodeId)
      dag1 == setNodeStatus(W.dag, meta, nodeId, "done")
      W1 == [W EXCEPT !.ctx.completed = @ + 1,
                      !.ctx.succeeded = @ \cup {nodeId},
                      !.dag = dag1,
                      !.artifacts = recordChannelArtifacts(@, dag1, nodeId, current)]
  IN ReleaseAll(recordBranchSuccess(W1, node.branch), meta,
                Dependents(W.ctx.edges, nodeId), 1)

\* Mutant: the failed node is not added to the failed set.
RunnerFailed_notRecorded(W, meta, nodeId, error) ==
  LET node == GetNode(W.ctx.nodes, nodeId)
  IN markBranchState(
       [W EXCEPT !.ctx.aborted = TRUE,
                 !.dag = setNodeStatus(@, meta, nodeId, "error"),
                 !.display.pipeMsg = "Node failed: " \o error,
                 !.display.runStatus = "Failed at"],
       node.branch, "error")

\* The runner of scheduleNode after `await runDagNode(node)`, failure branch.
RunnerFailed(W, meta, nodeId, error) ==
  LET node == GetNode(W.ctx.nodes, nodeId)
  IN markBranchState(
       [W EXCEPT !.ctx.failed = @ \cup {nodeId},
                 !.ctx.aborted = TRUE,
                 !.dag = setNodeStatus(@, meta, nodeId, "error"),
                 !.display.pipeMsg = "Node failed: " \o error,
                 !.display.runStatus = "Failed at"],
       node.branch, "error")

RECURSIVE BlockRest(_, _, _)
\* nodes.forEach of script.js:888-901, from position k on
BlockRest(W, meta, k) ==
  IF k > Len(W.ctx.nodes) THEN W
  ELSE
    LET node == W.ctx.nodes[k] IN
    IF node.id \notin W.ctx.failed /\ node.id \notin W.ctx.succeeded
      THEN LET W1 == [W EXCEPT !.dag = setNodeStatus(@, meta, node.id, "blocked")]
           IN BlockRest(IF Includes(DAG_BRANCH_KEYS, node.branch)
                          THEN markBranchState(W1, node.branch, "blocked") ELSE W1,
                        meta, k + 1)
      ELSE BlockRest(W, meta, k + 1)

RECURSIVE MarkFailedBranches(_, _)
\* failedBranches.forEach(branch => markBranchState(branch, 'error')), from key k on
MarkFailedBranches(W, k) ==
  IF k > Len(DAG_BRANCH_KEYS) THEN W
  ELSE LET b == DAG_BRANCH_KEYS[k]
           failedHere == \E i \in 1..Len(W.ctx.nodes) :
                           W.ctx.nodes[i].id \in W.ctx.failed /\ W.ctx.nodes[i].branch = b
       IN MarkFailedBranches(IF failedHere THEN markBranchState(W, b, "error") ELSE W,
                             k + 1)

\* Mutant: the run ends without marking the nodes that never ran.
FinishRun_noBlocking(W, meta) ==
  IF W.ctx.failed # {} THEN [W EXCEPT !.ctx.pc = "failed"]
  ELSE [W EXCEPT !.ctx.pc = "finished",
                 !.display.pipeMsg = "DAG pipeline finished",
                 !.display.runStatus = "Finished DAG pipeline"]

\* runDagPipeline after the while(activePromises.size) loop (script.js:886-906)
FinishRun(W, meta) ==
  IF W.ctx.failed # {}
    THEN [MarkFailedBranches(BlockRest(W, meta, 1), 1) EXCEPT !.ctx.pc = "failed"]
    ELSE [W EXCEPT !.ctx.pc = "finished",
                   !.display.pipeMsg = "DAG pipeline finished",
                   !.display.runStatus = "Finished DAG pipeline"]

\* Mutant: the code after the loop is never reached.
SettleRunner_loopForever(W, meta, nodeId) ==
  [W EXCEPT !.ctx.active = @ \ {nodeId}]

\* The loop ends in the turn in which the last active runner settles.
SettleRunner(W, meta, nodeId) ==
  LET W1 == [W EXCEPT !.ctx.active = @ \ {nodeId}]
  IN IF W1.ctx.active = {} THEN FinishRun(W1, meta) ELSE W1

Bundle == [dag |-> DAG_STATE, artifacts |-> CHANNEL_ARTIFACTS, ctx |-> run,
           calls |-> runCalls, display |-> display]

Unbundle(W) ==
  /\ DAG_STATE' = W.dag
  /\ CHANNEL_ARTIFACTS' = W.artifacts
  /\ run' = W.ctx
  /\ runCalls' = W.calls
  /\ display' = W.display

\* Mutant: the order is not tested for the cycle signal.
RunPrecheck_noCycleTest(dag) == IF Len(dag.nodes) = 0 THEN "empty" ELSE "ok"

\* The tests runDagPipeline makes before it touches anything (script.js:774-785)
RunPrecheck(dag) ==
  IF Len(dag.nodes) = 0 THEN "empty"
  ELSE IF topoOrder(dag).null THEN "cycle"
  ELSE "ok"

\* ---------------------------------------------------------- run: actions
\* runDagPipeline() from its call to its first await; one invocation at a time.
RunDagPipeline ==
  /\ run.pc # "active"
  /\ lastCall' = [op |-> "runDagPipeline", ret |-> Undefined]
  /\ UNCHANGED <<UNIT_META, NODE_COUNTER, SESSION_STATE, rerun>>
  /\ UNCHANGED linearVars
  /\ IF RunPrecheck(DAG_STATE) = "empty"
       THEN /\ display' = [display EXCEPT !.pipeMsg = "Add nodes to the DAG first",
                                          !.validation = "DAG is empty.",
                                          !.orderRows = <<>>]
            /\ run' = [pc |-> "empty"]
            /\ runCalls' = <<>>
            /\ UNCHANGED <<DAG_STATE, CHANNEL_ARTIFACTS>>
       ELSE IF RunPrecheck(DAG_STATE) = "cycle"
       THEN /\ display' = [display EXCEPT !.pipeMsg = "Cycle detected in DAG",
                                          !.validation = "Cycle detected. Fix connections.",
                                          !.orderRows = <<>>]
            /\ run' = [pc |-> "cycle"]
            /\ runCalls' = <<>>
            /\ UNCHANGED <<DAG_STATE, CHANNEL_ARTIFACTS>>
       ELSE
         LET dag0 == resetStatuses(DAG_STATE, UNIT_META)
             ctx0 == NewRun(dag0)
             isReady(id) == ctx0.indegree[id] = 0
             ready == SelectSeq([i \in 1..Len(ctx0.nodes) |-> ctx0.nodes[i].id], isReady)
         IN IF Len(ready) = 0
              THEN /\ display' = [display EXCEPT !.pipeMsg = "No runnable nodes in DAG",
                                                 !.branchRows = StartRows(ctx0)]
                   /\ run' = [ctx0 EXCEPT !.pc = "noReady"]
                   /\ runCalls' = <<>>
                   /\ DAG_STATE' = dag0
                   /\ UNCHANGED CHANNEL_ARTIFACTS
              ELSE Unbundle(ScheduleAll(
                     [dag |-> dag0, artifacts |-> CHANNEL_ARTIFACTS, ctx |-> ctx0,
                      calls |-> <<>>,
                      display |-> [display EXCEPT !.pipeMsg = "Running DAG pipeline",
                                                  !.runStatus = "Starting DAG pipeline",
                                                  !.branchRows = StartRows(ctx0)]],
                     UNIT_META, ready, 1))

\* The POST /run of a node comes to an outcome and its runner resumes; a
\* success is followed by refreshState, which mirrors the backend state.
RunDagResponse(nodeId, outcome, state) ==
  /\ run.pc = "active"
  /\ nodeId \in run.active
  /\ LET result == runDagNode(outcome) IN
       IF result.ok
         THEN /\ SESSION_STATE' = state
              /\ Unbundle(SettleRunner(RunnerSucceeded(Bundle, UNIT_META, nodeId, state.current),
                                       UNIT_META, nodeId))
         ELSE /\ UNCHANGED SESSION_STATE
              /\ Unbundle(SettleRunner(RunnerFailed(Bundle, UNIT_META, nodeId, result.error),
                                       UNIT_META, nodeId))
  /\ lastCall' = [op |-> "runner", ret |-> Undefined]
  /\ UNCHANGED <<UNIT_META, NODE_COUNTER, rerun>>
  /\ UNCHANGED linearVars

\* ------------------------------------------- run: the graphs it starts from
\* The (unit, branch) pairs the page adds nodes with.
RunKinds == {<<"filterseq", "R1">>, <<"filterseq", "R2">>,
             <<"pairseq", "MERGED">>, <<"assemble_pairs", "MERGED">>}

RECURSIVE BuildNodes(_)
\* addNode for each entry of kinds, ids handed out in insertion order
BuildNodes(kinds) ==
  IF Len(kinds) = 0 THEN [dag |-> [nodes |-> <<>>, edges |-> <<>>], meta |-> DEFAULT_UNIT_META]
  ELSE LET prev == BuildNodes(SubSeq(kinds, 1, Len(kinds) - 1))
           k == kinds[Len(kinds)]
       IN addNode(prev.dag, prev.meta, Len(kinds) - 1, k[1], k[2], Len(kinds))

RECURSIVE ConnectForward(_, _, _, _, _)
\* connectNodes(i, j) for every pair i < j of S, in lexicographic order
ConnectForward(dag, meta, S, i, j) ==
  IF i > Len(dag.nodes) THEN dag
  ELSE IF j > Len(dag.nodes) THEN ConnectForward(dag, meta, S, i + 1, i + 2)
  ELSE ConnectForward(IF <<i, j>> \in S THEN connectNodes(dag, meta, i, j).dag ELSE dag,
                      meta, S, i, j + 1)

ForwardPairs(n) == {p \in (1..n) \X (1..n) : p[1] < p[2]}

InitRunGraph ==
  \E n \in 0..MaxRunNodes :
    \E kinds \in [1..n -> RunKinds] :
      \E S \in SUBSET ForwardPairs(n) :
        LET built == BuildNodes(kinds)
        IN /\ DAG_STATE = ConnectForward(built.dag, built.meta, S, 1, 2)
           /\ UNIT_META = built.meta
           /\ NODE_COUNTER = n
           /\ CHANNEL_ARTIFACTS = [ch \in {} |-> 0]

InitRun ==
  /\ InitRunGraph
  /\ lastCall = NoCall
  /\ InitRunVars
  /\ InitDagPage

NextRun ==
  \/ RunDagPipeline
  \/ \E id \in 1..MaxRunNodes, o \in RunOutcomes, st \in BackendStates :
       RunDagResponse(id, o, st)

SpecRun == InitRun /\ [][NextRun]_vars


\* ---- runs whose backend holds artifacts for some channels only, with nodes
\* ---- deleted between and during runs
\* GET /state may report a current artifact for none, some or all of the
\* channels.
PartialBackendStates == {[current |-> c, aux |-> {}] : c \in {{}, {"R1"}, Channels}}

InitArtifacts ==
  /\ \E n \in 0..MaxArtifactNodes :
       \E kinds \in [1..n -> RunKinds] :
         LET built == BuildNodes(kinds)
         IN /\ DAG_STATE = built.dag
            /\ UNIT_META = built.meta
            /\ NODE_COUNTER = n
            /\ CHANNEL_ARTIFACTS = [ch \in {} |-> 0]
  /\ lastCall = NoCall
  /\ InitRunVars
  /\ InitDagPage

NextArtifacts ==
  \/ RunDagPipeline
  \/ \E id \in IdPool, o \in RunOutcomes, st \in PartialBackendStates :
       RunDagResponse(id, o, st)
  \/ \E id \in IdPool : RemoveNode(id)

SpecArtifacts == InitArtifacts /\ [][NextArtifacts]_vars

\* ---- runs of graphs to which edges are added between and during runs
InitRunEdit ==
  /\ \E n \in 0..MaxNodes :
       \E kinds \in [1..n -> {<<"filterseq", "R1">>, <<"filterseq", "R2">>}] :
         LET built == BuildNodes(kinds)
         IN /\ DAG_STATE = built.dag
            /\ UNIT_META = built.meta
            /\ NODE_COUNTER = n
            /\ CHANNEL_ARTIFACTS = [ch \in {} |-> 0]
  /\ lastCall = NoCall
  /\ InitRunVars
  /\ InitDagPage

NextRunEdit ==
  \/ \E f \in IdPool, t \in IdPool : Connect(f, t, MaxTopoEdges)
  \/ RunDagPipeline
  \/ \E id \in IdPool, o \in RunOutcomes, st \in BackendStates :
       RunDagResponse(id, o, st)

SpecRunEdit == InitRunEdit /\ [][NextRunEdit]_vars

\* Every POST /run that is in flight comes to an outcome: the runner that
\* awaits it resumes.
RunCallReturns ==
  \E id \in IdPool, o \in RunOutcomes, st \in BackendStates :
    RunDagResponse(id, o, st)

\* The runs of SpecRunEdit in which every call that is in flight returns:
\* weak fairness of RunCallReturns, WF_vars(RunCallReturns), with its enabling
\* condition written out. A step of RunCallReturns is possible exactly while
\* a run is active, as an active run always has a call in flight
\* (C31_RunTerminates checks that).
SpecRunFair ==
  InitRunEdit /\ [][NextRunEdit]_vars
    /\ ([]<>(run.pc # "active") \/ []<><<RunCallReturns>>_vars)

\* ---- runDagPipeline invoked again while an invocation is in progress
\* runPipeline (script.js:760-766) tests hasDagPipeline() and nothing else, and
\* the Run button is not disabled during a run: a click during a run starts a
\* second invocation with locals of its own on the same DAG_STATE.

\* runDagPipeline() past its pre-checks, up to its first await
\* (script.js:786-880): the bundle [dag, artifacts, ctx, calls, display].
StartRun(dag, metaMap, artifacts, disp) ==
  LET dag0 == resetStatuses(dag, metaMap)
      ctx0 == NewRun(dag0)
      isReady(id) == ctx0.indegree[id] = 0
      ready == SelectSeq([i \in 1..Len(ctx0.nodes) |-> ctx0.nodes[i].id], isReady)
  IN IF Len(ready) = 0
       THEN [dag |-> dag0, artifacts |-> artifacts,
             ctx |-> [ctx0 EXCEPT !.pc = "noReady"], calls |-> <<>>,
             display |-> [disp EXCEPT !.pipeMsg = "No runnable nodes in DAG",
                                      !.branchRows = StartRows(ctx0)]]
       ELSE ScheduleAll(
              [dag |-> dag0, artifacts |-> artifacts, ctx |-> ctx0, calls |-> <<>>,
               display |-> [disp EXCEPT !.pipeMsg = "Running DAG pipeline",
                                        !.runStatus = "Starting DAG pipeline",
                                        !.branchRows = StartRows(ctx0)]],
              metaMap, ready, 1)

\* runDagPipeline() called while the invocation `run` is in progress, from
\* the call to the first await. runCalls stays the log of `run`; the requests
\* of this invocation in flight are those of the nodes in rerun.active.
RunDagPipelineAgain ==
  /\ run.pc = "active"
  /\ rerun.pc # "active"
  /\ lastCall' = [op |-> "runDagPipeline", ret |-> Undefined]
  /\ UNCHANGED <<UNIT_META, NODE_COUNTER, SESSION_STATE, run, runCalls>>
  /\ UNCHANGED linearVars
  /\ IF RunPrecheck(DAG_STATE) = "empty"
       THEN /\ display' = [display EXCEPT !.pipeMsg = "Add nodes to the DAG first",
                                          !.validation = "DAG is empty.",
                                          !.orderRows = <<>>]
            /\ rerun' = [pc |-> "empty"]
            /\ UNCHANGED <<DAG_STATE, CHANNEL_ARTIFACTS>>
       ELSE IF RunPrecheck(DAG_STATE) = "cycle"
       THEN /\ display' = [display EXCEPT !.pipeMsg = "Cycle detected in DAG",
                                          !.validation = "Cycle detected. Fix connections.",
                                          !.orderRows = <<>>]
            /\ rerun' = [pc |-> "cycle"]
            /\ UNCHANGED <<DAG_STATE, CHANNEL_ARTIFACTS>>
       ELSE \E W \in {StartRun(DAG_STATE, UNIT_META, CHANNEL_ARTIFACTS, display)} :
              /\ DAG_STATE' = W.dag
              /\ CHANNEL_ARTIFACTS' = W.artifacts
              /\ rerun' = W.ctx
              /\ display' = W.display

\* The POST /run a runner of the second invocation awaits comes to an outcome
\* and that runner resumes.
RunDagResponseAgain(nodeId, outcome, state) ==
  /\ rerun.pc = "active"
  /\ nodeId \in rerun.active
  /\ LET result == runDagNode(outcome)
         B == [dag |-> DAG_STATE, artifacts |-> CHANNEL_ARTIFACTS, ctx |-> rerun,
               calls |-> <<>>, display |-> display]
     IN \E W \in {IF result.ok
                    THEN SettleRunner(RunnerSucceeded(B, UNIT_META, nodeId, state.current),
                                      UNIT_META, nodeId)
                    ELSE SettleRunner(RunnerFailed(B, UNIT_META, nodeId, result.error),
                                      UNIT_META, nodeId)} :
          /\ SESSION_STATE' = IF result.ok THEN state ELSE SESSION_STATE
          /\ DAG_STATE' = W.dag
          /\ CHANNEL_ARTIFACTS' = W.artifacts
          /\ rerun' = W.ctx
          /\ display' = W.display
  /\ lastCall' = [op |-> "runner", ret |-> Undefined]
  /\ UNCHANGED <<UNIT_META, NODE_COUNTER, run, runCalls>>
  /\ UNCHANGED linearVars

InitOverlap ==
  /\ \E n \in 0..MaxOverlapNodes :
       \E kinds \in [1..n -> RunKinds] :
         LET built == BuildNodes(kinds)
         IN /\ DAG_STATE = built.dag
            /\ UNIT_META = built.meta
            /\ NODE_COUNTER = n
            /\ CHANNEL_ARTIFACTS = [ch \in {} |-> 0]
  /\ lastCall = NoCall
  /\ InitRunVars
  /\ InitDagPage

NextOverlap ==
  \/ RunDagPipeline
  \/ \E id \in IdPool, o \in RunOutcomes, st \in BackendStates :
       RunDagResponse(id, o, st)
  \/ RunDagPipelineAgain
  \/ \E id \in IdPool, o \in RunOutcomes, st \in BackendStates :
       RunDagResponseAgain(id, o, st)

SpecOverlap == InitOverlap /\ [][NextOverlap]_vars

\* ================================================ single-cell page (sc.js)
\* The unit ids a card of the page can carry: three sc_ units the validation
\* names or treats alike, and one unit of the other group.
ScPageUnits == {"sc_merge_samples", "sc_remove_multi_heavy", "sc_remove_no_heavy",
                "filter_quality"}

\* unitId.startsWith('sc_')
StartsWithSc(unitId) ==
  unitId \in {"sc_merge_samples", "sc_remove_multi_heavy", "sc_remove_no_heavy", "sc_qc"}

\* Array.prototype.findIndex(step => step.unitId === unitId)
FindIndex(flow, unitId) ==
  IF \E i \in 1..Len(flow) : flow[i] = unitId
    THEN (CHOOSE i \in 1..Len(flow) :
            flow[i] = unitId /\ \A j \in 1..(i - 1) : flow[j] # unitId) - 1
    ELSE -1

\* Mutant: an ordering suggestion makes the flow invalid.
validateFlowSteps_suggestionBlocks(flow) ==
  LET mergeIndex == FindIndex(flow, "sc_merge_samples")
      multiHeavyIndex == FindIndex(flow, "sc_remove_multi_heavy")
      noHeavyIndex == FindIndex(flow, "sc_remove_no_heavy")
      nonSCTest(u) == ~StartsWithSc(u)
      nonSC == SelectSeq(flow, nonSCTest)
      m1 == IF mergeIndex > 0 THEN <<"Suggestion: Place Merge samples first">> ELSE <<>>
      m2 == IF multiHeavyIndex # -1 /\ noHeavyIndex # -1 /\ multiHeavyIndex > noHeavyIndex
              THEN <<"Suggestion: Run Remove multi heavy before Remove no heavy">>
              ELSE <<>>
      m3 == IF Len(nonSC) > 0 THEN <<"Invalid step detected">> ELSE <<>>
      isValid == Len(m1 \o m2 \o m3) = 0
  IN [ok |-> isValid, msgs |-> m1 \o m2 \o m3,
      header |-> IF isValid THEN "Looks good" ELSE "Problems found"]

\* validateFlow() past its test for the empty flow (sc.js:311-334)
validateFlowSteps(flow) ==
  LET mergeIndex == FindIndex(flow, "sc_merge_samples")
      multiHeavyIndex == FindIndex(flow, "sc_remove_multi_heavy")
      noHeavyIndex == FindIndex(flow, "sc_remove_no_heavy")
      nonSCTest(u) == ~StartsWithSc(u)
      nonSC == SelectSeq(flow, nonSCTest)
      m1 == IF mergeIndex > 0 THEN <<"Suggestion: Place Merge samples first">> ELSE <<>>
      m2 == IF multiHeavyIndex # -1 /\ noHeavyIndex # -1 /\ multiHeavyIndex > noHeavyIndex
              THEN <<"Suggestion: Run Remove multi heavy before Remove no heavy">>
              ELSE <<>>
      m3 == IF Len(nonSC) > 0 THEN <<"Invalid step detected">> ELSE <<>>
      isValid == Len(nonSC) = 0
  IN [ok |-> isValid, msgs |-> m1 \o m2 \o m3,
      header |-> IF isValid THEN "Looks good" ELSE "Problems found"]

\* Mutant: the empty flow is not tested for.
validateFlow_noEmptyCheck(flow) == validateFlowSteps(flow)

\* validateFlow(): the returned {ok, msgs} and the header pill it shows
validateFlow(flow) ==
  IF Len(flow) = 0
    THEN [ok |-> FALSE, msgs |-> <<"Empty flow">>, header |-> "Empty flow"]
    ELSE validateFlowSteps(flow)

\* runUnit(step) of sc.js: true on a success response, false otherwise
\* (non-success response, or an exception caught by its try/catch).
scRunUnit(outcome) == outcome = "ok"

\* The for loop of runFlow entered at `index` (0-based), up to its next await
\* or its end. Yields the new [running, run, issued, display]; issued holds
\* the request the iteration sends, if any.
runFlowFrom(flow, index, totalSteps, disp) ==
  IF index >= totalSteps
    THEN [running |-> FALSE, run |-> ScIdle, issued |-> {},
          display |-> [disp EXCEPT !.pstate = [text |-> "finished", step |-> 0]]]
  ELSE IF index + 1 > Len(flow)
    \* FLOW[index] is undefined: step.label throws and the invocation ends there
    THEN [running |-> TRUE, run |-> ScIdle, issued |-> {}, display |-> disp]
  ELSE [running |-> TRUE,
        run |-> [pc |-> "await", index |-> index, totalSteps |-> totalSteps],
        issued |-> {[index |-> index, unitId |-> flow[index + 1]]},
        display |-> [disp EXCEPT !.pstate = [text |-> "running step", step |-> index + 1]]]

\* Mutant: the result of runUnit is not tested.
runFlowResume_ignoreFailure(flow, r, success, disp) ==
  runFlowFrom(flow, r.index + 1, r.totalSteps, disp)

\* runFlow after `await runUnit(step)` (sc.js:360-366)
runFlowResume(flow, r, success, disp) ==
  IF ~success
    THEN [running |-> FALSE, run |-> ScIdle, issued |-> {},
          display |-> [disp EXCEPT !.pstate = [text |-> "failed at step", step |-> r.index + 1]]]
    ELSE runFlowFrom(flow, r.index + 1, r.totalSteps, disp)

\* ------------------------------------------------- single-cell page: actions
ScUnchanged == UNCHANGED <<dagVars, runVars, pageVars, bulkVars>>

AddToFlow(unitId) ==
  /\ page = "sc"
  /\ Len(FLOW) < MaxFlow
  /\ FLOW' = Append(FLOW, unitId)
  /\ lastCall' = [op |-> "addToFlow", ret |-> Undefined]
  /\ UNCHANGED <<running, scRun, scDisplay, scPending>>
  /\ ScUnchanged

\* removeFromFlow(index): FLOW.splice(index, 1)
RemoveFromFlow(index) ==
  /\ page = "sc"
  /\ index \in 0..(Len(FLOW) - 1)
  /\ FLOW' = SubSeq(FLOW, 1, index) \o SubSeq(FLOW, index + 2, Len(FLOW))
  /\ lastCall' = [op |-> "removeFromFlow", ret |-> Undefined]
  /\ UNCHANGED <<running, scRun, scDisplay, scPending>>
  /\ ScUnchanged

\* the #clearflow click handler
ClearFlow ==
  /\ page = "sc"
  /\ FLOW' = <<>>
  /\ scDisplay' = [pstate |-> [text |-> "idle", step |-> 0], validation |-> "-"]
  /\ lastCall' = [op |-> "clearflow", ret |-> Undefined]
  /\ UNCHANGED <<running, scRun, scPending>>
  /\ ScUnchanged

ValidateFlow ==
  /\ page = "sc"
  /\ LET v == validateFlow(FLOW)
     IN /\ scDisplay' = [scDisplay EXCEPT !.validation = v.header]
        /\ lastCall' = [op |-> "validateFlow", ret |-> [ok |-> v.ok, msgs |-> v.msgs]]
  /\ UNCHANGED <<FLOW, running, scRun, scPending>>
  /\ ScUnchanged

\* Mutant: the running flag is not tested.
RunFlow_noGuard ==
  /\ page = "sc"
  /\ LET v == validateFlow(FLOW)
         shown == [scDisplay EXCEPT !.validation = v.header]
     IN IF ~v.ok
          THEN /\ scDisplay' = shown
               /\ lastCall' = [op |-> "runFlow", ret |-> Undefined, issued |-> {}]
               /\ UNCHANGED <<running, scRun, scPending>>
          ELSE
            LET r == runFlowFrom(FLOW, 0, Len(FLOW),
                       [shown EXCEPT !.pstate = [text |-> "starting", step |-> 0]])
            IN /\ running' = r.running
               /\ scRun' = r.run
               /\ scPending' = scPending \cup r.issued
               /\ scDisplay' = r.display
               /\ lastCall' = [op |-> "runFlow", ret |-> Undefined,
                               issued |-> r.issued]
  /\ UNCHANGED FLOW
  /\ ScUnchanged

\* runFlow() from its call to its first await or return
RunFlow ==
  /\ page = "sc"
  /\ IF running
       THEN /\ lastCall' = [op |-> "runFlow", ret |-> Undefined, issued |-> {}]
            /\ UNCHANGED <<running, scRun, scDisplay, scPending>>
       ELSE
         LET v == validateFlow(FLOW)
             shown == [scDisplay EXCEPT !.validation = v.header]
         IN IF ~v.ok
              THEN /\ scDisplay' = shown
                   /\ lastCall' = [op |-> "runFlow", ret |-> Undefined, issued |-> {}]
                   /\ UNCHANGED <<running, scRun, scPending>>
              ELSE
                LET r == runFlowFrom(FLOW, 0, Len(FLOW),
                           [shown EXCEPT !.pstate = [text |-> "starting", step |-> 0]])
                IN /\ running' = r.running
                   /\ scRun' = r.run
                   /\ scPending' = scPending \cup r.issued
                   /\ scDisplay' = r.display
                   /\ lastCall' = [op |-> "runFlow", ret |-> Undefined,
                                   issued |-> r.issued]
  /\ UNCHANGED FLOW
  /\ ScUnchanged

\* The POST /run request req comes to an outcome and runFlow, which awaits
\* it, resumes.
ScRunResponse(req, outcome) ==
  /\ page = "sc"
  /\ req \in scPending
  /\ scRun.pc = "await" /\ scRun.index = req.index
  /\ LET success == scRunUnit(outcome)
         r == runFlowResume(FLOW, scRun, success, scDisplay)
     IN /\ running' = r.running
        /\ scRun' = r.run
        /\ scPending' = (scPending \ {req}) \cup r.issued
        /\ scDisplay' = r.display
        /\ lastCall' = [op |-> "scRunUnit", ret |-> success, issued |-> r.issued]
  /\ UNCHANGED FLOW
  /\ ScUnchanged

\* ============================================ bulk page, linear (script.js)
\* The unit ids a card of the page can carry: a unit with no check of its own,
\* the two units validatePipeline checks, and one unit of the other group.
BulkPageUnits == {"filter_quality", "mask_primers", "assemble_align", "sc_qc"}

\* unit.startsWith('assemble_')
StartsWithAssemble(unit) ==
  unit \in {"assemble_align", "assemble_join", "assemble_sequential"}

\* hasNodes() of window.BulkDag
hasNodes(dag) == Len(dag.nodes) > 0

hasDagPipeline(mode, dag) == mode = "paired" /\ hasNodes(dag)

\* selectedSteps(): PIPELINE without the steps whose box is no longer checked
selectedSteps(pipeline, chk) ==
  LET isChecked(u) == u \in chk
  IN SelectSeq(pipeline, isChecked)

\* Mutant: a newly checked step is put first.
TogglePipeAdd_prepend(pipeline, chk, unitId) ==
  LET others(u) == u # unitId
      rest == SelectSeq(pipeline, others)
  IN IF unitId \notin chk
       THEN [checked |-> chk \cup {unitId}, pipeline |-> <<unitId>> \o rest]
       ELSE [checked |-> chk \ {unitId}, pipeline |-> rest]

\* the change handler of a card's "Add to pipeline" box
TogglePipeAdd(pipeline, chk, unitId) ==
  LET others(u) == u # unitId
      rest == SelectSeq(pipeline, others)
  IN IF unitId \notin chk
       THEN [checked |-> chk \cup {unitId}, pipeline |-> Append(rest, unitId)]
       ELSE [checked |-> chk \ {unitId}, pipeline |-> rest]

\* Mutant: the test for an empty node list is left out.
validateDagPipeline_noEmptyTest(dag, disp) ==
  IF topoOrder(dag).null
    THEN [ret |-> FALSE,
          display |-> [disp EXCEPT !.validation = "Cycle detected in DAG. Fix connections.",
                                   !.orderRows = <<>>,
                                   !.pipeMsg = "Cycle detected in DAG"]]
  ELSE [ret |-> TRUE,
        display |-> [disp EXCEPT !.validation = "order",
                                 !.orderRows = topoOrder(dag).order,
                                 !.pipeMsg = "DAG validation OK"]]

\* validateDagPipeline(dagApi): its return value and what it shows; orderRows
\* holds the node ids of the numbered rows written to #validation.
validateDagPipeline(dag, disp) ==
  IF Len(dag.nodes) = 0
    THEN [ret |-> FALSE,
          display |-> [disp EXCEPT !.validation = "Add nodes to the DAG to validate.",
                                   !.orderRows = <<>>,
                                   !.pipeMsg = "No DAG nodes selected"]]
  ELSE IF topoOrder(dag).null
    THEN [ret |-> FALSE,
          display |-> [disp EXCEPT !.validation = "Cycle detected in DAG. Fix connections.",
                                   !.orderRows = <<>>,
                                   !.pipeMsg = "Cycle detected in DAG"]]
  ELSE [ret |-> TRUE,
        display |-> [disp EXCEPT !.validation = "order",
                                 !.orderRows = topoOrder(dag).order,
                                 !.pipeMsg = "DAG validation OK"]]

validateMaskPrimers(card, session) ==
  IF card.variant \in {"align", "score"}
    THEN IF card.vFilled \/ "v_primers" \in session.aux
           THEN [ok |-> TRUE, msg |-> "MaskPrimers primers: OK"]
           ELSE [ok |-> FALSE, msg |-> "MaskPrimers needs V primers"]
    ELSE [ok |-> TRUE, msg |-> "MaskPrimers extract: OK"]

validateAssemble(unit, session) ==
  IF StartsWithAssemble(unit) /\ ~("R1" \in session.current /\ "R2" \in session.current)
    THEN [ok |-> FALSE, msg |-> "AssemblePairs likely needs both R1 and R2 present"]
    ELSE [ok |-> TRUE, msg |-> "AssemblePairs: basic check passed"]

validateConsensus == [ok |-> TRUE, msg |-> "BuildConsensus: ensure BARCODE exists"]

\* validatePipeline() from its test of steps.length on (script.js:717-735):
\* what it shows for the selected steps.
validateSteps(steps, card, session, disp) ==
  IF Len(steps) = 0
    THEN [disp EXCEPT !.validation = "No steps selected.", !.orderRows = <<>>]
    ELSE
      LET notSc(u) == ~StartsWithSc(u)
          bulkSteps == SelectSeq(steps, notSc)
          removed == Len(bulkSteps) # Len(steps)
          res(u) == IF u = "mask_primers" THEN validateMaskPrimers(card, session)
                    ELSE IF StartsWithAssemble(u) THEN validateAssemble(u, session)
                    ELSE IF u = "build_consensus" THEN validateConsensus
                    ELSE [ok |-> TRUE, msg |-> "OK"]
          head == IF removed
                    THEN <<[unit |-> "", ok |-> FALSE,
                            msg |-> "Single-cell units detected and removed from pipeline"]>>
                    ELSE <<>>
          rows == head \o [k \in 1..Len(bulkSteps) |->
                             [unit |-> bulkSteps[k], ok |-> res(bulkSteps[k]).ok,
                              msg |-> res(bulkSteps[k]).msg]]
          okAll == \A k \in 1..Len(rows) : rows[k].ok
      IN [disp EXCEPT !.validation = "msgs",
                      !.orderRows = <<>>,
                      !.pipeMsg = IF okAll THEN "Validation passed"
                                  ELSE "Validation found issues"]

\* Mutant: the sc_ units reported as removed are removed from PIPELINE.
validatePipeline_removesScUnits(dag, pipeline, chk, card, session, disp) ==
  LET notSc(u) == ~StartsWithSc(u)
  IN IF hasNodes(dag)
       THEN [display |-> validateDagPipeline(dag, disp).display, pipeline |-> pipeline]
       ELSE [display |-> validateSteps(selectedSteps(pipeline, chk), card, session, disp),
             pipeline |-> SelectSeq(selectedSteps(pipeline, chk), notSc)]

\* validatePipeline(): it returns nothing; yields the new display and PIPELINE
\* (selectedSteps() assigns PIPELINE).
validatePipeline(dag, pipeline, chk, card, session, disp) ==
  IF hasNodes(dag)
    THEN [display |-> validateDagPipeline(dag, disp).display, pipeline |-> pipeline]
    ELSE [display |-> validateSteps(selectedSteps(pipeline, chk), card, session, disp),
          pipeline |-> selectedSteps(pipeline, chk)]

\* runUnit(card, unitId) of script.js: it returns true or false, or throws
\* when the request cannot complete (it has no try/catch).
runUnit(outcome) ==
  IF outcome = "ok" THEN "true"
  ELSE IF outcome = "http_error" THEN "false"
  ELSE "throw"

\* The for loop of runLinearPipeline entered at i (0-based), up to its next
\* await or its end. Yields the invocation's locals (a slot is free again
\* when its invocation has ended), the request sent, if any, and the display.
runLinearFrom(r, inv, i, disp) ==
  IF i >= Len(inv.steps)
    THEN [inv |-> LinIdle, issued |-> {},
          display |-> [disp EXCEPT !.runStatus = "Finished", !.pipeMsg = "Pipeline finished"]]
    ELSE [inv |-> [inv EXCEPT !.pc = "await", !.i = i],
          issued |-> {[run |-> r, index |-> i, unit |-> inv.steps[i + 1]]},
          display |-> [disp EXCEPT !.runStatus = "Running"]]

\* Mutant: a step whose run failed is run again.
runLinearResume_retry(r, inv, result, disp) ==
  IF result = "throw"
    THEN [inv |-> LinIdle, issued |-> {}, display |-> disp]
  ELSE IF result = "false"
    THEN runLinearFrom(r, inv, inv.i, disp)
  ELSE runLinearFrom(r, inv, inv.i + 1, disp)

\* runLinearPipeline after `await runUnit(s.card, s.unit)` (script.js:752-754);
\* when runUnit throws, the invocation ends without a further statement.
runLinearResume(r, inv, result, disp) ==
  IF result = "throw"
    THEN [inv |-> LinIdle, issued |-> {}, display |-> disp]
  ELSE IF result = "false"
    THEN [inv |-> LinIdle, issued |-> {},
          display |-> [disp EXCEPT !.runStatus = "Failed at", !.pipeMsg = "Pipeline failed"]]
  ELSE runLinearFrom(r, inv, inv.i + 1, disp)

\* ------------------------------------------------ bulk page, linear: actions
BulkUnchanged == UNCHANGED <<dagVars, run, runCalls, rerun, pageVars, BULK_MODE, scVars>>

\* the user clicks the "Add to pipeline" box of a card
PipeAddChange(unitId) ==
  /\ page = "bulk"
  /\ unitId \in checked \/ Cardinality(checked) < MaxPipeline
  /\ LET t == TogglePipeAdd(PIPELINE, checked, unitId)
     IN /\ checked' = t.checked
        /\ PIPELINE' = selectedSteps(t.pipeline, t.checked)
  /\ lastCall' = [op |-> "pipeAddChange", ret |-> Undefined]
  /\ UNCHANGED <<maskCard, linRuns, linPending, SESSION_STATE, display>>
  /\ BulkUnchanged

\* the user fills in or empties the V-primer file name of the mask_primers card
EditMaskCard(vFilled) ==
  /\ page = "bulk"
  /\ maskCard.vFilled # vFilled
  /\ maskCard' = [maskCard EXCEPT !.vFilled = vFilled]
  /\ lastCall' = [op |-> "editCard", ret |-> Undefined]
  /\ UNCHANGED <<PIPELINE, checked, linRuns, linPending, SESSION_STATE, display>>
  /\ BulkUnchanged

\* the #pipe-clear click handler
ClearPipeline ==
  /\ page = "bulk"
  /\ checked' = {}
  /\ PIPELINE' = <<>>
  /\ display' = [InitDisplay EXCEPT !.validation = "-",
                                    !.pipeMsg = "Pipeline cleared",
                                    !.runStatus = display.runStatus]
  /\ lastCall' = [op |-> "pipeClear", ret |-> Undefined]
  /\ UNCHANGED <<maskCard, linRuns, linPending, SESSION_STATE>>
  /\ BulkUnchanged

\* the #pipe-validate click handler
ValidatePipeline ==
  /\ page = "bulk"
  /\ LET v == validatePipeline(DAG_STATE, PIPELINE, checked, maskCard, SESSION_STATE, display)
     IN /\ display' = v.display
        /\ PIPELINE' = v.pipeline
  /\ lastCall' = [op |-> "validatePipeline", ret |-> Undefined]
  /\ UNCHANGED <<checked, maskCard, linRuns, linPending, SESSION_STATE>>
  /\ BulkUnchanged

\* runPipeline() where it calls runLinearPipeline(), up to the first await or return
RunLinearPipeline ==
  /\ page = "bulk"
  /\ ~hasDagPipeline(BULK_MODE, DAG_STATE)
  /\ \E r \in 1..MaxLinRuns : linRuns[r].pc = "idle"
  /\ LET steps == selectedSteps(PIPELINE, checked)
         notSc(u) == ~StartsWithSc(u)
         bulkSteps == SelectSeq(steps, notSc)
     IN /\ PIPELINE' = steps
        /\ IF Len(bulkSteps) = 0
             THEN /\ display' = [display EXCEPT !.pipeMsg = "No bulk steps selected"]
                  /\ lastCall' = [op |-> "runLinearPipeline", ret |-> Undefined,
                                  issued |-> {}]
                  /\ UNCHANGED <<linRuns, linPending>>
             ELSE
               LET d1 == IF Len(bulkSteps) # Len(steps)
                           THEN [display EXCEPT !.pipeMsg = "Single-cell units removed from pipeline"]
                           ELSE display
                   v == validatePipeline(DAG_STATE, steps, checked, maskCard, SESSION_STATE, d1)
                   r == CHOOSE k \in 1..MaxLinRuns :
                          linRuns[k].pc = "idle" /\ \A j \in 1..(k - 1) : linRuns[j].pc # "idle"
                   started == runLinearFrom(r, [pc |-> "await", steps |-> bulkSteps, i |-> 0], 0,
                                            [v.display EXCEPT !.runStatus = "Starting"])
               IN /\ linRuns' = [linRuns EXCEPT ![r] = started.inv]
                  /\ linPending' = linPending \cup started.issued
                  /\ display' = started.display
                  /\ lastCall' = [op |-> "runLinearPipeline", ret |-> Undefined,
                                  issued |-> started.issued]
  /\ UNCHANGED <<checked, maskCard, SESSION_STATE>>
  /\ BulkUnchanged

\* What the backend reports on GET /state after a successful run of a step.
LinearBackendStates == {[current |-> {"R1", "R2"}, aux |-> {}]}

\* The POST /run request req comes to an outcome and the invocation that
\* awaits it resumes; runUnit refreshes the mirrored state after a success.
LinRunResponse(req, outcome, state) ==
  /\ page = "bulk"
  /\ req \in linPending
  /\ linRuns[req.run].pc = "await" /\ linRuns[req.run].i = req.index
  /\ LET result == runUnit(outcome)
         next == runLinearResume(req.run, linRuns[req.run], result, display)
     IN /\ linRuns' = [linRuns EXCEPT ![req.run] = next.inv]
        /\ linPending' = (linPending \ {req}) \cup next.issued
        /\ display' = next.display
        /\ SESSION_STATE' = IF result = "true" THEN state ELSE SESSION_STATE
        /\ lastCall' = [op |-> "runUnit", run |-> req.run, ret |-> result,
                        issued |-> next.issued]
  /\ UNCHANGED <<PIPELINE, checked, maskCard>>
  /\ BulkUnchanged

\* ------------------------------------------------------ linear: specification
\* Either page as loaded; on the bulk page the linear flow is built in
\* single-end mode, with the DAG empty or holding one node.
InitLinear ==
  /\ page \in {"bulk", "sc"}
  /\ startPc = "done"
  /\ scSession = NoScSession
  /\ BULK_MODE = "single"
  /\ \E n \in 0..1 :
       LET built == BuildNodes([k \in 1..n |-> <<"filterseq", "R1">>])
       IN /\ DAG_STATE = built.dag
          /\ UNIT_META = built.meta
          /\ NODE_COUNTER = n
          /\ CHANNEL_ARTIFACTS = [ch \in {} |-> 0]
  /\ (page = "sc") => (DAG_STATE.nodes = <<>>)
  /\ lastCall = NoCall
  /\ InitRunVars
  /\ InitBulkVars
  /\ InitScVars

ScRequests == [index : 0..MaxFlow, unitId : ScPageUnits]

LinRequests == [run : 1..MaxLinRuns, index : 0..MaxPipeline, unit : BulkPageUnits]

NextLinear ==
  \/ \E u \in ScPageUnits : AddToFlow(u)
  \/ \E i \in 0..(MaxFlow - 1) : RemoveFromFlow(i)
  \/ ClearFlow
  \/ ValidateFlow
  \/ RunFlow
  \/ \E req \in ScRequests, o \in RunOutcomes : ScRunResponse(req, o)
  \/ \E u \in BulkPageUnits : PipeAddChange(u)
  \/ \E f \in BOOLEAN : EditMaskCard(f)
  \/ ClearPipeline
  \/ ValidatePipeline
  \/ RunLinearPipeline
  \/ \E req \in LinRequests, o \in RunOutcomes, st \in LinearBackendStates :
       LinRunResponse(req, o, st)

SpecLinear == InitLinear /\ [][NextLinear]_vars

\* ---- the single-cell page alone, every request in flight returning
\* The POST /run that runFlow awaits comes to an outcome.
ScCallReturns ==
  \E req \in ScRequests, o \in RunOutcomes : ScRunResponse(req, o)

InitScPage == InitLinear /\ page = "sc"

NextScPage ==
  \/ \E u \in ScPageUnits : AddToFlow(u)
  \/ \E i \in 0..(MaxFlow - 1) : RemoveFromFlow(i)
  \/ ClearFlow
  \/ ValidateFlow
  \/ RunFlow
  \/ ScCallReturns

SpecScFair == InitScPage /\ [][NextScPage]_vars /\ WF_vars(ScCallReturns)

\* ---- the session of the single-cell page (sc.js:17-27)
\* The handlers that call ensureSession after the page is loaded:
\* uploadSCFiles (sc.js:31), the Run button of a card (sc.js:200) and runUnit
\* (sc.js:373).
SessionCallers == {"upload", "card", "run"}

\* ensureSession() from its call to its first await or return: it returns at
\* once when SID is set and sends POST /session/start otherwise. The backend
\* creates a session of its own for each POST; the k-th POST gets session k.
EnsureSession(caller) ==
  /\ page = "sc"
  /\ scSession.SID # 0 \/ scSession.posts < MaxStarts
  /\ IF scSession.SID # 0
       THEN /\ UNCHANGED scSession
            /\ lastCall' = [op |-> "ensureSession", ret |-> scSession.SID]
       ELSE /\ scSession' = [scSession EXCEPT
                               !.posts = @ + 1,
                               !.pending = @ \cup {[caller |-> caller, session |-> scSession.posts + 1]}]
            /\ lastCall' = [op |-> "ensureSession", ret |-> Undefined]
  /\ UNCHANGED <<dagVars, runVars, page, startPc, bulkVars, scVars>>

\* A POST /session/start returns: SID = data.session_id (sc.js:22-23)
SessionStartResponse(req) ==
  /\ page = "sc"
  /\ req \in scSession.pending
  /\ scSession' = [scSession EXCEPT !.SID = req.session, !.pending = @ \ {req}]
  /\ lastCall' = [op |-> "sessionStarted", ret |-> req.session]
  /\ UNCHANGED <<dagVars, runVars, page, startPc, bulkVars, scVars>>

\* The page after its DOMContentLoaded handler wired the buttons and reached
\* `await ensureSession()` (sc.js:416-427): the first POST is in flight.
InitScSession ==
  /\ InitDag
  /\ lastCall = NoCall
  /\ InitRunVars
  /\ page = "sc"
  /\ startPc = "done"
  /\ BULK_MODE = "single"
  /\ InitBulkVars
  /\ InitScVars
  /\ scSession = [SID |-> 0, posts |-> 1,
                  pending |-> {[caller |-> "init", session |-> 1]}]

NextScSession ==
  \/ \E caller \in SessionCallers : EnsureSession(caller)
  \/ \E req \in [caller : SessionCallers \cup {"init"}, session : 1..MaxStarts] :
       SessionStartResponse(req)

SpecScSession == InitScSession /\ [][NextScSession]_vars

\* ------------------------------------------- the three drivers: specification
\* The step lists the boxes of the bulk page can have built, and the flows
\* "Add to pipeline" can have built on the single-cell page.
StepLists ==
  {l \in UNION {[1..n -> BulkPageUnits] : n \in 0..MaxPipeline} :
     \A i \in 1..Len(l) : \A j \in 1..Len(l) : l[i] = l[j] => i = j}

Flows == UNION {[1..n -> ScPageUnits] : n \in 0..MaxFlow}

\* A page with its model built and nothing run yet: the bulk page in paired
\* mode with a DAG, the bulk page in single-end mode with a step list, or the
\* single-cell page with a flow.
InitDrivers ==
  /\ lastCall = NoCall
  /\ InitRunVars
  /\ startPc = "done"
  /\ scSession = NoScSession
  /\ maskCard = [variant |-> "align", vFilled |-> FALSE]
  /\ linRuns = [r \in 1..MaxLinRuns |-> LinIdle]
  /\ linPending = {}
  /\ running = FALSE
  /\ scRun = ScIdle
  /\ scDisplay = InitScDisplay
  /\ scPending = {}
  /\ \/ /\ page = "bulk" /\ BULK_MODE = "paired"
        /\ InitRunGraph
        /\ PIPELINE = <<>> /\ checked = {} /\ FLOW = <<>>
     \/ /\ page = "bulk" /\ BULK_MODE = "single"
        /\ InitDag
        /\ \E l \in StepLists : PIPELINE = l /\ checked = ToSet(l)
        /\ FLOW = <<>>
     \/ /\ page = "sc" /\ BULK_MODE = "single"
        /\ InitDag
        /\ PIPELINE = <<>> /\ checked = {}
        /\ FLOW \in Flows

NextDrivers ==
  \/ RunDagPipeline
  \/ \E id \in 1..MaxRunNodes, o \in RunOutcomes, st \in BackendStates :
       RunDagResponse(id, o, st)
  \/ RunLinearPipeline
  \/ \E req \in LinRequests, o \in RunOutcomes, st \in LinearBackendStates :
       LinRunResponse(req, o, st)
  \/ RunFlow
  \/ \E req \in ScRequests, o \in RunOutcomes : ScRunResponse(req, o)

SpecDrivers == InitDrivers /\ [][NextDrivers]_vars

\* startSession() is called once, by the DOMContentLoaded handler; the palette
\* of bulk.js is rendered by its own DOMContentLoaded handler, so nodes can be
\* added while startSession awaits.
\* The response of POST /session/start arrives: SID is set and PIPELINE is
\* reset (script.js:130-134), then renderUnits() is awaited.
StartSessionResponse ==
  /\ page = "bulk"
  /\ startPc = "await_start"
  /\ startPc' = "await_units"
  /\ PIPELINE' = <<>>
  /\ lastCall' = [op |-> "startSession", ret |-> Undefined]
  /\ UNCHANGED <<dagVars, runVars, page, scSession, scVars>>
  /\ UNCHANGED <<BULK_MODE, checked, maskCard, linRuns, linPending>>

\* renderUnits() has built the cards, with their boxes unchecked, and
\* drawFlow() ran (script.js:134-136); refreshState() is awaited.
StartSessionUnits ==
  /\ page = "bulk"
  /\ startPc = "await_units"
  /\ startPc' = "await_state"
  /\ checked' = {}
  /\ PIPELINE' = selectedSteps(PIPELINE, {})
  /\ DAG_STATE' = renderGraph(DAG_STATE, UNIT_META)
  /\ lastCall' = [op |-> "startSession", ret |-> Undefined]
  /\ UNCHANGED <<CHANNEL_ARTIFACTS, UNIT_META, NODE_COUNTER, runVars, page, scSession, scVars>>
  /\ UNCHANGED <<BULK_MODE, maskCard, linRuns, linPending>>

\* refreshState() has mirrored the state of the new session and startSession
\* runs to its end (script.js:136-140).
StartSessionDone ==
  /\ page = "bulk"
  /\ startPc = "await_state"
  /\ startPc' = "done"
  /\ SESSION_STATE' = [current |-> {}, aux |-> {}]
  /\ display' = [InitDisplay EXCEPT !.validation = "-", !.runStatus = "-",
                                    !.pipeMsg = display.pipeMsg]
  /\ lastCall' = [op |-> "startSession", ret |-> Undefined]
  /\ UNCHANGED <<dagVars, run, runCalls, rerun, page, scSession, bulkVars, scVars>>

\* A box is clicked once renderUnits() has built the cards.
PipeAddOnCard(unitId) ==
  /\ startPc \in {"await_state", "done"}
  /\ PipeAddChange(unitId)

\* The bulk page at DOMContentLoaded: nothing built, startSession just called.
InitSession ==
  /\ InitDag
  /\ lastCall = NoCall
  /\ InitRunVars
  /\ page = "bulk"
  /\ startPc = "await_start"
  /\ scSession = NoScSession
  /\ BULK_MODE = "paired"
  /\ InitBulkVars
  /\ InitScVars

NextSession ==
  \/ StartSessionResponse
  \/ StartSessionUnits
  \/ StartSessionDone
  \/ \E u \in Units : \E b \in DeclaredBranchArgs(u) : AddNode(u, b)
  \/ \E u \in {"filter_quality", "mask_primers"} : PipeAddOnCard(u)

SpecSession == InitSession /\ [][NextSession]_vars

\* ---- the bulk page with its mode switch
\* The change handler of the bulk-mode radio buttons: apply(mode)
\* (bulk.js:591-606). It leaves DAG_STATE and the step list as they are.
SetMode(mode) ==
  /\ page = "bulk"
  /\ BULK_MODE' = mode
  /\ lastCall' = [op |-> "setMode", ret |-> Undefined]
  /\ UNCHANGED <<dagVars, runVars, pageVars, scVars>>
  /\ UNCHANGED <<PIPELINE, checked, maskCard, linRuns, linPending>>

\* A node is added with the DAG builder, which the page offers in paired
\* mode (bulk.js:588).
AddNodePaired ==
  /\ BULK_MODE = "paired"
  /\ AddNode("filterseq", "R1")

\* runPipeline() where it calls runDagPipeline()
RunPipelineDag ==
  /\ page = "bulk"
  /\ hasDagPipeline(BULK_MODE, DAG_STATE)
  /\ RunDagPipeline

\* The bulk page as loaded, in the mode apply() falls back to (bulk.js:609),
\* with the DAG and the step list empty. The specification follows the page up
\* to the start of its runs; their requests stay in flight.
InitMode ==
  /\ InitDag
  /\ lastCall = NoCall
  /\ InitRunVars
  /\ page = "bulk"
  /\ startPc = "done"
  /\ scSession = NoScSession
  /\ BULK_MODE = "single"
  /\ InitBulkVars
  /\ InitScVars

NextMode ==
  \/ \E mode \in {"single", "paired"} : SetMode(mode)
  \/ AddNodePaired
  \/ \E u \in {"filter_quality", "mask_primers"} : PipeAddChange(u)
  \/ ValidatePipeline
  \/ RunPipelineDag
  \/ RunLinearPipeline

SpecMode == InitMode /\ [][NextMode]_vars

\* ------------------------------------------------ validation: specification
\* validateDagPipeline(window.BulkDag) called on the DAG as it stands
ValidateDagPipeline ==
  /\ page = "bulk"
  /\ LET v == validateDagPipeline(DAG_STATE, display)
     IN /\ display' = v.display
        /\ lastCall' = [op |-> "validateDagPipeline", ret |-> v.ret]
  /\ UNCHANGED <<PIPELINE, checked, maskCard, linRuns, linPending, SESSION_STATE>>
  /\ BulkUnchanged

\* What GET /state mirrored before the validations: nothing uploaded, or both
\* reads and the V-primer file uploaded.
MirroredStates ==
  {[current |-> {}, aux |-> {}], [current |-> {"R1", "R2"}, aux |-> {"v_primers"}]}

\* Either page as loaded, the bulk page with up to MaxNodes filterseq nodes on
\* the canvas.
InitValidate ==
  /\ page \in {"bulk", "sc"}
  /\ startPc = "done"
  /\ scSession = NoScSession
  /\ BULK_MODE = "paired"
  /\ \E n \in 0..MaxNodes :
       \E kinds \in [1..n -> {<<"filterseq", "R1">>, <<"filterseq", "R2">>}] :
         LET built == BuildNodes(kinds)
         IN /\ DAG_STATE = built.dag
            /\ UNIT_META = built.meta
            /\ NODE_COUNTER = n
            /\ CHANNEL_ARTIFACTS = [ch \in {} |-> 0]
  /\ (page = "sc") => (DAG_STATE.nodes = <<>>)
  /\ lastCall = NoCall
  /\ SESSION_STATE \in MirroredStates
  /\ run = NoRun
  /\ runCalls = <<>>
  /\ rerun = NoRun
  /\ display = InitDisplay
  /\ InitBulkVars
  /\ InitScVars

NextValidate ==
  \/ \E f \in IdPool, t \in IdPool : Connect(f, t, MaxEdges)
  \/ \E f \in IdPool, t \in IdPool : Disconnect(f, t)
  \/ ValidateDagPipeline
  \/ \E u \in BulkPageUnits : PipeAddChange(u)
  \/ ClearPipeline
  \/ ValidatePipeline
  \/ \E u \in ScPageUnits : AddToFlow(u)
  \/ \E i \in 0..(MaxFlow - 1) : RemoveFromFlow(i)
  \/ ClearFlow
  \/ ValidateFlow

SpecValidate == InitValidate /\ [][NextValidate]_vars

\* ============================================= properties: graph notions
\* The pairs (u, v) with an edge u -> v.
EdgeRel(edges) == {<<edges[k].from, edges[k].to>> : k \in 1..Len(edges)}

\* Transitive closure: (u, v) with a directed path of at least one edge.
RECURSIVE TransClosure(_)
TransClosure(R) ==
  LET R2 == R \cup {<<pq[1][1], pq[2][2]>> : pq \in {x \in R \X R : x[1][2] = x[2][1]}}
  IN IF R2 = R THEN R ELSE TransClosure(R2)

HasCycle(edges) == \E p \in TransClosure(EdgeRel(edges)) : p[1] = p[2]

\* Position of an id in a list without repetitions (0 when absent).
PosIn(seq, x) == IF Includes(seq, x) THEN CHOOSE i \in 1..Len(seq) : seq[i] = x ELSE 0

\* order lists every node id exactly once.
IsPermutationOfNodes(order, nodes) ==
  /\ Len(order) = Len(nodes)
  /\ ToSet(order) = NodeIds(nodes)
  /\ \A i, j \in 1..Len(order) : i # j => order[i] # order[j]

\* C1: on an acyclic graph topoOrder() returns a list holding every node id
\* exactly once in which the source of every edge precedes its target.
C1_TopoOrderCorrect ==
  (lastCall.op = "topoOrder" /\ ~HasCycle(DAG_STATE.edges)) =>
    /\ ~lastCall.ret.null
    /\ IsPermutationOfNodes(lastCall.ret.order, DAG_STATE.nodes)
    /\ \A k \in 1..Len(DAG_STATE.edges) :
         PosIn(lastCall.ret.order, DAG_STATE.edges[k].from)
           < PosIn(lastCall.ret.order, DAG_STATE.edges[k].to)

\* topoOrder() was applied to an acyclic graph of three nodes and at least two
\* edges, one of which runs against the insertion order of the nodes.
C1_Witness ==
  /\ lastCall.op = "topoOrder"
  /\ ~HasCycle(DAG_STATE.edges)
  /\ Len(DAG_STATE.nodes) = 3
  /\ Len(DAG_STATE.edges) >= 2
  /\ \E k \in 1..Len(DAG_STATE.edges) :
       GetNode(DAG_STATE.nodes, DAG_STATE.edges[k].from).order
         > GetNode(DAG_STATE.nodes, DAG_STATE.edges[k].to).order

\* C2: topoOrder() returns null exactly when the edges contain a directed
\* cycle, and an order it returns omits no node.
C2_NullIffCycle ==
  lastCall.op = "topoOrder" =>
    /\ lastCall.ret.null <=> HasCycle(DAG_STATE.edges)
    /\ ~lastCall.ret.null => IsPermutationOfNodes(lastCall.ret.order, DAG_STATE.nodes)

\* topoOrder() returned null on a graph with a cycle and a node outside it
\* that is connected to the cycle.
C2_Witness ==
  /\ lastCall.op = "topoOrder"
  /\ lastCall.ret.null
  /\ \E n \in NodeIds(DAG_STATE.nodes) :
       /\ <<n, n>> \notin TransClosure(EdgeRel(DAG_STATE.edges))
       /\ \E k \in 1..Len(DAG_STATE.edges) :
            DAG_STATE.edges[k].from = n \/ DAG_STATE.edges[k].to = n

\* ====================================== properties: connect and auto-chain
CommonChannels(source, target) == ToSet(source.produces) \cap ToSet(target.consumes)

\* The step is a connect call between two existing, distinct nodes whose
\* produces and consumes have no channel in common.
ConnectOfIncompatible ==
  /\ lastCall'.op = "connect"
  /\ lastCall'.from # lastCall'.to
  /\ {lastCall'.from, lastCall'.to} \subseteq NodeIds(DAG_STATE.nodes)
  /\ CommonChannels(GetNode(DAG_STATE.nodes, lastCall'.from),
                    GetNode(DAG_STATE.nodes, lastCall'.to)) = {}

\* C7: connect between a source and a target without a common channel returns
\* false and leaves the edge list and the target's incoming list unchanged.
C7_IncompatibleConnectRejected ==
  [][ConnectOfIncompatible =>
       /\ lastCall'.ret = FALSE
       /\ DAG_STATE'.edges = DAG_STATE.edges
       /\ GetNode(DAG_STATE'.nodes, lastCall'.to).incoming
            = GetNode(DAG_STATE.nodes, lastCall'.to).incoming]_vars

\* A connect from a node producing only R1 to a node consuming only MERGED
\* has just returned false.
C7_Witness ==
  /\ lastCall.op = "connect"
  /\ lastCall.ret = FALSE
  /\ {lastCall.from, lastCall.to} \subseteq NodeIds(DAG_STATE.nodes)
  /\ GetNode(DAG_STATE.nodes, lastCall.from).produces = <<"R1">>
  /\ GetNode(DAG_STATE.nodes, lastCall.to).consumes = <<"MERGED">>

\* The step is an addNode call that created a node.
AddedNode ==
  /\ lastCall'.op = "addNode"
  /\ Len(DAG_STATE'.nodes) = Len(DAG_STATE.nodes) + 1

NewestNode(dag) == dag.nodes[Len(dag.nodes)]

\* The nodes that were on the new node's branch before the call.
PriorOnBranch == {n \in ToSet(DAG_STATE.nodes) : n.branch = NewestNode(DAG_STATE').branch}

\* C8: when the branch of the new node already holds nodes and the most
\* recently inserted of them produces a channel the new node consumes, addNode
\* leaves an edge from that node to the new node whose channels are exactly
\* the common ones.
C8_AutoChain ==
  [][(AddedNode /\ PriorOnBranch # {}
        /\ CommonChannels(MaxOrder(PriorOnBranch), NewestNode(DAG_STATE')) # {}) =>
       \E k \in 1..Len(DAG_STATE'.edges) :
         LET e == DAG_STATE'.edges[k] IN
           /\ e.from = MaxOrder(PriorOnBranch).id
           /\ e.to = NewestNode(DAG_STATE').id
           /\ ToSet(e.channels) = CommonChannels(MaxOrder(PriorOnBranch), NewestNode(DAG_STATE'))
           /\ Len(e.channels) = Cardinality(ToSet(e.channels))]_vars

\* A third node was just added to branch R1 and is chained to the second one
\* with channels {R1}.
C8_Witness ==
  /\ lastCall.op = "addNode"
  /\ Len(DAG_STATE.nodes) = 3
  /\ \A i \in 1..3 : DAG_STATE.nodes[i].branch = "R1"
  /\ \E k \in 1..Len(DAG_STATE.edges) :
       /\ DAG_STATE.edges[k].from = DAG_STATE.nodes[2].id
       /\ DAG_STATE.edges[k].to = DAG_STATE.nodes[3].id
       /\ DAG_STATE.edges[k].channels = <<"R1">>

\* ------------------------------------------------------ properties: DAG run
StatusOf(id) == GetNode(DAG_STATE.nodes, id).status

Issued == ToSet(runCalls)

RunEnded == run.pc \in {"failed", "finished"}

RunEdgeRel == {<<run.edges[k].from, run.edges[k].to>> : k \in 1..Len(run.edges)}

\* The nodes with a directed path to id in the DAG the run was started on.
AncestorsOf(id) ==
  {u \in NodeIds(run.nodes) : <<u, id>> \in TransClosure(RunEdgeRel)}

DescendantsOf(id) ==
  {d \in NodeIds(run.nodes) : <<id, d>> \in TransClosure(RunEdgeRel)}

RunBranchOf(id) == GetNode(run.nodes, id).branch

\* The DAG of the run is two chains a1 -> a2 on R1 and b1 -> b2 on R2 and nothing else.
TwoBranches(a1, a2, b1, b2) ==
  /\ NodeIds(run.nodes) = {a1, a2, b1, b2}
  /\ Cardinality({a1, a2, b1, b2}) = 4
  /\ RunBranchOf(a1) = "R1" /\ RunBranchOf(a2) = "R1"
  /\ RunBranchOf(b1) = "R2" /\ RunBranchOf(b2) = "R2"
  /\ RunEdgeRel = {<<a1, a2>>, <<b1, b2>>}

\* C3: in a run over the chains A1 -> A2 (R1) and B1 -> B2 (R2) in which A1's
\* call fails and no call of B1 or B2 fails, at the end of the run A2 is
\* blocked and was never called, and B1 and B2 were both called and are done.
C3_IndependentBranchCompletes ==
  \A a1, a2, b1, b2 \in 1..MaxRunNodes :
    (run.pc = "failed" /\ TwoBranches(a1, a2, b1, b2) /\ run.failed = {a1})
      => /\ StatusOf(a2) = "blocked" /\ a2 \notin Issued
         /\ b1 \in Issued /\ b2 \in Issued
         /\ StatusOf(b1) = "done" /\ StatusOf(b2) = "done"

\* C4: whenever the run call of a node v has been issued in a run, every node
\* u with an edge u -> v has succeeded in that run and has status done.
C4_StartedAfterPredecessorsDone ==
  run.pc \in {"active", "failed", "finished"} =>
    \A v \in Issued :
      \A k \in 1..Len(run.edges) :
        run.edges[k].to = v =>
          /\ run.edges[k].from \in run.succeeded
          /\ StatusOf(run.edges[k].from) = "done"

\* A node with two predecessors has been called.
C4_Witness ==
  /\ run.pc = "active"
  /\ \E v \in Issued : Cardinality({p \in RunEdgeRel : p[2] = v}) >= 2

\* C5: at the end of a run in which a node failed, that node has status
\* error, each of its transitive dependents has status blocked, and no run
\* call was issued for any of the dependents.
C5_FailureBlocksDependents ==
  run.pc = "failed" =>
    \A f \in run.failed :
      /\ StatusOf(f) = "error"
      /\ \A d \in DescendantsOf(f) : StatusOf(d) = "blocked" /\ d \notin Issued

\* A run has ended after a failure of a node with a dependent of a dependent.
C5_Witness ==
  /\ run.pc = "failed"
  /\ \E f \in run.failed :
       \E d \in DescendantsOf(f) : <<f, d>> \notin RunEdgeRel

\* C6: at the end of a run a node has status blocked only if one of its
\* ancestors failed in that run.
C6_BlockedOnlyBelowFailure ==
  RunEnded =>
    \A id \in NodeIds(run.nodes) :
      StatusOf(id) = "blocked" => AncestorsOf(id) \cap run.failed # {}

\* ---------------------------------------------- properties: linear pipelines
\* runLinearPipeline's list: the checked steps in click order, sc_ units left out.
BulkStepsNow ==
  LET notSc(u) == ~StartsWithSc(u)
  IN SelectSeq(selectedSteps(PIPELINE, checked), notSc)

\* The run requests the step sent.
ScIssued ==
  IF lastCall'.op \in {"runFlow", "scRunUnit"} THEN lastCall'.issued ELSE {}

LinIssued ==
  IF lastCall'.op \in {"runLinearPipeline", "runUnit"} THEN lastCall'.issued ELSE {}

\* C9: validating an empty step list gives a not-ok result with an 'empty'
\* message (single-cell page: validateFlow returns ok = false with the message
\* 'Empty flow'; bulk page: validatePipeline, which returns nothing, shows
\* 'No steps selected.'), and running an empty list sends no run request and
\* starts no run, on either page.
C9_EmptyListNotRun ==
  [][ /\ (lastCall'.op = "validateFlow" /\ FLOW = <<>>) =>
           /\ lastCall'.ret.ok = FALSE
           /\ Includes(lastCall'.ret.msgs, "Empty flow")
           /\ scDisplay'.validation = "Empty flow"
      /\ (lastCall'.op = "runFlow" /\ FLOW = <<>>) =>
           /\ ScIssued = {}
           /\ running' = running /\ scRun' = scRun
           /\ (~running => scDisplay'.validation = "Empty flow")
      /\ (lastCall'.op = "validatePipeline" /\ ~hasNodes(DAG_STATE)
            /\ selectedSteps(PIPELINE, checked) = <<>>) =>
           /\ display'.validation = "No steps selected."
           /\ LinIssued = {}
      /\ (lastCall'.op = "runLinearPipeline" /\ selectedSteps(PIPELINE, checked) = <<>>) =>
           /\ LinIssued = {}
           /\ linRuns' = linRuns
           /\ display'.pipeMsg = "No bulk steps selected"
           /\ display'.runStatus = display.runStatus
    ]_vars

\* Run was pressed on the bulk page with no step checked.
C9_Witness ==
  /\ page = "bulk"
  /\ lastCall.op = "runLinearPipeline"
  /\ PIPELINE = <<>> /\ checked = {}
  /\ display.pipeMsg = "No bulk steps selected"
  /\ linPending = {}

\* C10: each linear run sends its run requests in list order and one at a
\* time: the first request is for the first step and is sent when the run
\* starts; the request for the next step is sent only when the request of the
\* step before it returned success; when a step returns non-success the run
\* sends no further request, ends, and shows the failure at that step.
C10_LinearInOrderHaltOnFailure ==
  [][ /\ \A req \in ScIssued :
           /\ scPending' = {req}
           /\ req.unitId = FLOW[req.index + 1]
           /\ \/ lastCall'.op = "runFlow" /\ ~running /\ req.index = 0
              \/ /\ lastCall'.op = "scRunUnit" /\ lastCall'.ret = TRUE
                 /\ scRun.pc = "await" /\ req.index = scRun.index + 1
      /\ (lastCall'.op = "scRunUnit" /\ lastCall'.ret = FALSE) =>
           /\ scPending' = {}
           /\ scRun'.pc = "idle" /\ running' = FALSE
           /\ scDisplay'.pstate = [text |-> "failed at step", step |-> scRun.index + 1]
      /\ \A req \in LinIssued :
           /\ {p \in linPending' : p.run = req.run} = {req}
           /\ req.unit = linRuns'[req.run].steps[req.index + 1]
           /\ \/ /\ lastCall'.op = "runLinearPipeline"
                 /\ linRuns[req.run].pc = "idle"
                 /\ linRuns'[req.run].steps = BulkStepsNow
                 /\ req.index = 0
              \/ /\ lastCall'.op = "runUnit" /\ lastCall'.run = req.run
                 /\ lastCall'.ret = "true"
                 /\ linRuns'[req.run].steps = linRuns[req.run].steps
                 /\ req.index = linRuns[req.run].i + 1
      /\ (lastCall'.op = "runUnit" /\ lastCall'.ret = "false") =>
           /\ LinIssued = {}
           /\ {p \in linPending' : p.run = lastCall'.run} = {}
           /\ linRuns'[lastCall'.run].pc = "idle"
           /\ display'.runStatus = "Failed at"
           /\ display'.pipeMsg = "Pipeline failed"
    ]_vars

\* On the single-cell page the request of the second step is in flight after
\* the first step returned success.
C10_Witness ==
  /\ page = "sc"
  /\ lastCall.op = "scRunUnit" /\ lastCall.ret = TRUE
  /\ \E req \in scPending : req.index = 1 /\ req.unitId = FLOW[2]

\* ------------------------------------------------ properties: run pre-checks
\* C11: when runDagPipeline is called on a DAG with no nodes or with a cycle,
\* it sends no run request, starts no run and leaves DAG_STATE, every node's
\* status included, as it was.
C11_NoRunOnEmptyOrCycle ==
  [][ (lastCall'.op = "runDagPipeline"
         /\ (Len(DAG_STATE.nodes) = 0 \/ HasCycle(DAG_STATE.edges))) =>
        /\ runCalls' = <<>>
        /\ run'.pc \in {"empty", "cycle"}
        /\ DAG_STATE' = DAG_STATE
        /\ CHANNEL_ARTIFACTS' = CHANNEL_ARTIFACTS
    ]_vars

\* runDagPipeline was called on a cyclic DAG that holds a node ready to run
\* and a node whose status is left from an earlier run.
C11_Witness ==
  /\ lastCall.op = "runDagPipeline"
  /\ run.pc = "cycle"
  /\ HasCycle(DAG_STATE.edges)
  /\ \E i \in 1..Len(DAG_STATE.nodes) :
       \A k \in 1..Len(DAG_STATE.edges) : DAG_STATE.edges[k].to # DAG_STATE.nodes[i].id
  /\ \E i \in 1..Len(DAG_STATE.nodes) : DAG_STATE.nodes[i].status # "idle"

\* ------------------------------------------ properties: linear pre-run checks
\* A pre-run check of the bulk page fails for the list runLinearPipeline would
\* run: a mask_primers step (variant align or score) with no V-primer file
\* name filled in and none uploaded, or an assemble_ step while the mirrored
\* state lacks R1 or R2.
PreRunCheckFails ==
  \E k \in 1..Len(BulkStepsNow) :
    \/ /\ BulkStepsNow[k] = "mask_primers"
       /\ maskCard.variant \in {"align", "score"}
       /\ ~maskCard.vFilled
       /\ "v_primers" \notin SESSION_STATE.aux
    \/ /\ StartsWithAssemble(BulkStepsNow[k])
       /\ ~({"R1", "R2"} \subseteq SESSION_STATE.current)

\* C12: when a pre-run validation check fails for the linear pipeline of the
\* bulk page, running the pipeline sends no run request and starts no run.
C12_FailedCheckBlocksRun ==
  [][ (lastCall'.op = "runLinearPipeline" /\ PreRunCheckFails) =>
        /\ LinIssued = {}
        /\ linRuns' = linRuns
    ]_vars

\* ------------------------------------- properties: steps of the wrong group
\* The single-cell flow holds a unit that is not an sc_ unit.
FlowHasForeignStep == \E k \in 1..Len(FLOW) : ~StartsWithSc(FLOW[k])

\* The checked steps of the bulk page hold an sc_ unit.
PipelineHasForeignStep ==
  \E k \in 1..Len(selectedSteps(PIPELINE, checked)) :
    StartsWithSc(selectedSteps(PIPELINE, checked)[k])

\* C13: a linear pipeline with a step of the wrong group for its page is
\* invalid as a whole: validating it reports not-ok (on the bulk page, when
\* the DAG canvas is empty so that the step list is what is validated), and
\* running it sends no run request for any step.
C13_ForeignStepInvalidatesPipeline ==
  [][ /\ (lastCall'.op = "validateFlow" /\ FlowHasForeignStep) =>
           lastCall'.ret.ok = FALSE
      /\ (lastCall'.op = "validatePipeline" /\ PipelineHasForeignStep
                                             /\ ~hasNodes(DAG_STATE)) =>
           display'.pipeMsg = "Validation found issues"
      /\ (lastCall'.op = "runFlow" /\ FlowHasForeignStep) => ScIssued = {}
      /\ (lastCall'.op = "runLinearPipeline" /\ PipelineHasForeignStep) =>
           LinIssued = {}
    ]_vars

\* ------------------------------------------- properties: transport errors
\* C14: in linear mode a run request that cannot complete is handled like a
\* non-success response: the step is reported as failed, the pipeline halts
\* with a failure status and sends no further request, and the page does not
\* go on showing the step as running (bulk page: runUnit of script.js, whose
\* failure to complete is the outcome "throw"; single-cell page: runUnit of
\* sc.js, which returns false on either kind of failure).
C14_TransportErrorHalts ==
  [][ /\ (lastCall'.op = "runUnit" /\ lastCall'.ret \in {"false", "throw"}) =>
           /\ linRuns'[lastCall'.run] = LinIdle
           /\ LinIssued = {}
           /\ display'.runStatus = "Failed at"
           /\ display'.pipeMsg = "Pipeline failed"
      /\ (lastCall'.op = "scRunUnit" /\ lastCall'.ret = FALSE) =>
           /\ ~running'
           /\ ScIssued = {}
           /\ scDisplay'.pstate.text = "failed at step"
    ]_vars

\* ------------------------------------------- properties: repeated validation
\* C15: validation is repeatable and leaves the model alone. When a validation
\* (validateFlow, validatePipeline or validateDagPipeline) has just run, the
\* step list, the DAG and the mirrored backend state are what they were, and
\* running the same validation again on the state reached gives the same
\* result and shows the same messages.
C15_ValidationIdempotent ==
  [][ /\ lastCall'.op = "validateFlow" =>
           /\ FLOW' = FLOW
           /\ validateFlow(FLOW').ok = lastCall'.ret.ok
           /\ validateFlow(FLOW').msgs = lastCall'.ret.msgs
           /\ validateFlow(FLOW').header = scDisplay'.validation
      /\ lastCall'.op = "validatePipeline" =>
           /\ PIPELINE' = PIPELINE
           /\ DAG_STATE' = DAG_STATE
           /\ SESSION_STATE' = SESSION_STATE
           /\ validatePipeline(DAG_STATE', PIPELINE', checked', maskCard',
                               SESSION_STATE', display')
                = [display |-> display', pipeline |-> PIPELINE']
      /\ lastCall'.op = "validateDagPipeline" =>
           /\ DAG_STATE' = DAG_STATE
           /\ validateDagPipeline(DAG_STATE', display')
                = [ret |-> lastCall'.ret, display |-> display']
    ]_vars

\* A validation of a bulk step list that holds an sc_ unit and a bulk unit has
\* just reported issues.
C15_Witness ==
  /\ lastCall.op = "validatePipeline"
  /\ Len(PIPELINE) = 2
  /\ \E k \in 1..2 : StartsWithSc(PIPELINE[k])
  /\ display.pipeMsg = "Validation found issues"
  /\ display.validation = "msgs"

\* ------------------------------------------------ properties: selectedSteps
\* What selectedSteps() would return now, and after the step.
SelectedNow == selectedSteps(PIPELINE, checked)

SelectedNext == selectedSteps(PIPELINE', checked')

Without(seq, u) ==
  LET others(x) == x # u
  IN SelectSeq(seq, others)

\* C16: selectedSteps() returns exactly the steps whose box is checked, each
\* once, in the order in which they were added: checking a box puts its step
\* after the steps already there, unchecking a box takes its step out and
\* leaves the others in place, clearing leaves none, and no other operation
\* changes what selectedSteps() returns.
C16_SelectedStepsAreCheckedInAddOrder ==
  /\ [](/\ ToSet(SelectedNow) = checked
        /\ Cardinality(checked) = Len(SelectedNow))
  /\ [][ /\ \A u \in BulkPageUnits :
              (lastCall'.op = "pipeAddChange" /\ u \notin checked /\ u \in checked') =>
                 SelectedNext = Append(SelectedNow, u)
         /\ \A u \in BulkPageUnits :
              (lastCall'.op = "pipeAddChange" /\ u \in checked /\ u \notin checked') =>
                 /\ SelectedNext = Without(SelectedNow, u)
                 /\ ~Includes(SelectedNext, u)
         /\ lastCall'.op = "pipeClear" => SelectedNext = <<>>
         /\ lastCall'.op \notin {"pipeAddChange", "pipeClear"} =>
              SelectedNext = SelectedNow
       ]_vars

\* A second step has just been checked while a run of the first is in flight.
C16_Witness ==
  /\ lastCall.op = "pipeAddChange"
  /\ Len(PIPELINE) = 2
  /\ Cardinality(checked) = 2
  /\ linPending # {}

\* ---------------------------------------------- properties: DAG validation
\* C17: validateDagPipeline returns false when the DAG has no node, returns
\* false when topoOrder() returns null, and otherwise returns true and shows
\* the nodes in exactly the order topoOrder() returns.
C17_DagValidation ==
  [][ lastCall'.op = "validateDagPipeline" =>
        /\ Len(DAG_STATE.nodes) = 0 =>
             /\ lastCall'.ret = FALSE
             /\ display'.orderRows = <<>>
             /\ display'.pipeMsg = "No DAG nodes selected"
        /\ topoOrder(DAG_STATE).null =>
             /\ lastCall'.ret = FALSE
             /\ display'.orderRows = <<>>
             /\ display'.pipeMsg = "Cycle detected in DAG"
        /\ (Len(DAG_STATE.nodes) > 0 /\ ~topoOrder(DAG_STATE).null) =>
             /\ lastCall'.ret = TRUE
             /\ display'.orderRows = topoOrder(DAG_STATE).order
             /\ display'.pipeMsg = "DAG validation OK"
    ]_vars

\* A DAG of three nodes was validated and the order shown is not the order in
\* which the nodes were added.
C17_Witness ==
  /\ lastCall.op = "validateDagPipeline"
  /\ lastCall.ret = TRUE
  /\ Len(DAG_STATE.nodes) = 3
  /\ display.orderRows = topoOrder(DAG_STATE).order
  /\ display.orderRows # [k \in 1..3 |-> DAG_STATE.nodes[k].id]

\* ------------------------------------------ properties: shape of the edges
\* C18: in every state reached by addNode, removeNode, connectNodes and
\* removeEdge no two edges have the same (from, to) pair, no edge goes from a
\* node to itself, and both ends of every edge are nodes of the DAG.
C18_EdgesWellFormed ==
  LET edges == DAG_STATE.edges
      ids == NodeIds(DAG_STATE.nodes)
  IN /\ \A i \in 1..Len(edges) : \A j \in 1..Len(edges) :
          (edges[i].from = edges[j].from /\ edges[i].to = edges[j].to) => i = j
     /\ \A i \in 1..Len(edges) : edges[i].from # edges[i].to
     /\ \A i \in 1..Len(edges) : edges[i].from \in ids /\ edges[i].to \in ids

\* A node has just been removed and the two nodes left are joined by an edge.
C18_Witness ==
  /\ lastCall.op = "removeNode"
  /\ Len(DAG_STATE.edges) >= 1
  /\ Len(DAG_STATE.nodes) = 2

\* --------------------------------------------- properties: edge channels
\* C19: the channel list of every edge is non-empty and holds exactly the
\* channels that its source node now produces and its target node now
\* consumes.
C19_EdgeChannelsAreIntersection ==
  \A i \in 1..Len(DAG_STATE.edges) :
    LET e == DAG_STATE.edges[i]
        source == GetNode(DAG_STATE.nodes, e.from)
        target == GetNode(DAG_STATE.nodes, e.to)
    IN /\ Len(e.channels) > 0
       /\ e.from \in NodeIds(DAG_STATE.nodes)
       /\ e.to \in NodeIds(DAG_STATE.nodes)
       /\ ToSet(e.channels) = ToSet(source.produces) \cap ToSet(target.consumes)

\* An edge carries fewer channels than its target consumes: it runs from a
\* node that produces R1 only into a node that consumes R1 and R2.
C19_Witness ==
  \E i \in 1..Len(DAG_STATE.edges) :
    LET e == DAG_STATE.edges[i]
        target == GetNode(DAG_STATE.nodes, e.to)
    IN /\ e.channels = <<"R1">>
       /\ ToSet(target.consumes) = {"R1", "R2"}

\* ------------------------------------------- properties: incoming lists
\* The edges that end at the node id.
EdgesInto(id) ==
  {k \in 1..Len(DAG_STATE.edges) : DAG_STATE.edges[k].to = id}

\* C20: the incoming list of every node mirrors the edges that end at it:
\* every entry has an edge from its source into the node with the same
\* channels, every edge into the node has an entry, and no source appears
\* twice; so after removeEdge and removeNode the entries of the edges they
\* removed are gone.
C20_IncomingMirrorsEdges ==
  \A n \in 1..Len(DAG_STATE.nodes) :
    LET node == DAG_STATE.nodes[n]
        incoming == node.incoming
    IN /\ \A i \in 1..Len(incoming) :
            \E k \in EdgesInto(node.id) :
              /\ DAG_STATE.edges[k].from = incoming[i].node
              /\ DAG_STATE.edges[k].channels = incoming[i].channels
       /\ \A k \in EdgesInto(node.id) :
            \E i \in 1..Len(incoming) : incoming[i].node = DAG_STATE.edges[k].from
       /\ \A i \in 1..Len(incoming) : \A j \in 1..Len(incoming) :
            incoming[i].node = incoming[j].node => i = j

\* An edge has just been disconnected from a node that keeps another
\* incoming edge.
C20_Witness ==
  /\ lastCall.op = "removeEdge"
  /\ \E n \in 1..Len(DAG_STATE.nodes) :
       /\ Len(DAG_STATE.nodes[n].incoming) = 1
       /\ Cardinality(EdgesInto(DAG_STATE.nodes[n].id)) = 1
       /\ DAG_STATE.nodes[n].unitId = "pairseq"

\* ----------------------------------------- properties: dynamic-branch nodes
\* C21: every node of a dynamic-branch unit consumes and produces exactly the
\* one-element list that holds the branch the node is on.
C21_DynamicBranchChannels ==
  \A n \in 1..Len(DAG_STATE.nodes) :
    LET node == DAG_STATE.nodes[n]
    IN (node.unitId \in DOMAIN UNIT_META /\ UNIT_META[node.unitId].dynamicBranch) =>
         /\ node.consumes = <<node.branch>>
         /\ node.produces = <<node.branch>>

\* A dynamic-branch node is on R2 and another one is on R1.
C21_Witness ==
  /\ \E n \in 1..Len(DAG_STATE.nodes) :
       /\ UNIT_META[DAG_STATE.nodes[n].unitId].dynamicBranch
       /\ DAG_STATE.nodes[n].branch = "R2"
       /\ DAG_STATE.nodes[n].consumes = <<"R2">>
  /\ \E n \in 1..Len(DAG_STATE.nodes) :
       /\ UNIT_META[DAG_STATE.nodes[n].unitId].dynamicBranch
       /\ DAG_STATE.nodes[n].branch = "R1"

\* ------------------------------------------ properties: fixed target branch
\* C22: whatever branch argument addNode is given, a node of a unit with a
\* fixed target branch is created on that target branch.
C22_FixedTargetBranch ==
  [][ (AddedNode /\ UNIT_META[NewestNode(DAG_STATE').unitId].branchTarget # "") =>
        NewestNode(DAG_STATE').branch =
          UNIT_META[NewestNode(DAG_STATE').unitId].branchTarget
    ]_vars

\* ------------------------------------------------ properties: new session
\* C23: when startSession completes, the linear pipeline is empty and the DAG
\* has no nodes, no edges and no channel artifact records.
C23_NewSessionDiscardsModels ==
  [][ (startPc # "done" /\ startPc' = "done") =>
        /\ PIPELINE' = <<>>
        /\ DAG_STATE'.nodes = <<>>
        /\ DAG_STATE'.edges = <<>>
        /\ DOMAIN CHANNEL_ARTIFACTS' = {}
    ]_vars

\* ---------------------------------------- properties: overall success
\* C24: 'DAG pipeline finished' is shown only when no node of the run failed,
\* and whenever it is shown every node of the run has status done.
C24_SuccessMeansAllDone ==
  display.pipeMsg = "DAG pipeline finished" =>
    /\ run.pc = "finished"
    /\ run.failed = {}
    /\ \A id \in NodeIds(run.nodes) : StatusOf(id) = "done"

\* A run of four nodes joined by at least two edges has reported success.
C24_Witness ==
  /\ display.pipeMsg = "DAG pipeline finished"
  /\ Len(run.nodes) = 4
  /\ Len(run.edges) >= 2
  /\ Len(runCalls) = 4

\* -------------------------------------------- properties: no repeated call
\* C25: within one run invocation at most one run call is issued per DAG node
\* and per linear step, and nothing is re-run after a failure: the calls of a
\* DAG run name each node at most once; a linear invocation issues the call
\* of step 0 when it starts and the call of the next step only after the call
\* of the step before came back successful.
C25_AtMostOneCallPerStep ==
  /\ [](\A i \in 1..Len(runCalls) : \A j \in 1..Len(runCalls) :
          runCalls[i] = runCalls[j] => i = j)
  /\ [][ /\ \A req \in LinIssued :
              /\ linRuns'[req.run].i = req.index
              /\ \/ /\ lastCall'.op = "runLinearPipeline"
                    /\ linRuns[req.run].pc = "idle"
                    /\ req.index = 0
                 \/ /\ lastCall'.op = "runUnit"
                    /\ lastCall'.run = req.run
                    /\ lastCall'.ret = "true"
                    /\ req.index = linRuns[req.run].i + 1
         /\ Cardinality(LinIssued) <= 1
         /\ \A req \in ScIssued :
              \/ /\ lastCall'.op = "runFlow"
                 /\ scRun.pc = "idle"
                 /\ req.index = 0
              \/ /\ lastCall'.op = "scRunUnit"
                 /\ lastCall'.ret = TRUE
                 /\ req.index = scRun.index + 1
         /\ Cardinality(ScIssued) <= 1
       ]_vars

\* The second step of a linear run of two steps has just failed and no call
\* is in flight.
C25_Witness ==
  /\ lastCall.op = "runUnit"
  /\ lastCall.ret = "false"
  /\ Len(PIPELINE) = 2
  /\ linPending = {}
  /\ SESSION_STATE.current # {}

\* ----------------------------------------- properties: status transitions
StatusAfter(id) == GetNode(DAG_STATE'.nodes, id).status

\* The status changes a node may go through in one turn of a DAG run.
RunTransitions ==
  {<<"idle", "running">>, <<"idle", "blocked">>,
   <<"running", "done">>, <<"running", "error">>}

\* C26: a run that passes the empty and cycle checks makes every node idle
\* before it sets the first node to running, so right after its first turn
\* every node is idle or running; from then on a node's status only goes
\* idle -> running -> done, idle -> running -> error or idle -> blocked, and
\* done, error and blocked are not left until the next run starts.
C26_StatusTransitions ==
  [][ /\ (lastCall'.op = "runDagPipeline" /\ run'.pc \in {"active", "noReady"}) =>
           \A id \in NodeIds(DAG_STATE'.nodes) :
             /\ StatusAfter(id) \in {"idle", "running"}
             /\ StatusAfter(id) = "running" <=> id \in ToSet(runCalls')
      /\ lastCall'.op = "runner" =>
           \A id \in NodeIds(DAG_STATE.nodes) :
             \/ StatusAfter(id) = StatusOf(id)
             \/ <<StatusOf(id), StatusAfter(id)>> \in RunTransitions
    ]_vars

\* A second run has just started on a DAG whose nodes an earlier run had left
\* done: one node is running again and another is idle again.
C26_Witness ==
  /\ lastCall.op = "runDagPipeline"
  /\ run.pc = "active"
  /\ SESSION_STATE.current # {}
  /\ \E id \in NodeIds(DAG_STATE.nodes) : StatusOf(id) = "running"
  /\ \E id \in NodeIds(DAG_STATE.nodes) : StatusOf(id) = "idle"

\* ------------------------------------------------ properties: removeNode
\* The ids the step removed.
RemovedIds == NodeIds(DAG_STATE.nodes) \ NodeIds(DAG_STATE'.nodes)

\* A node without its incoming list.
Bare(node) == [node EXCEPT !.incoming = <<>>]

\* The nodes of the sequence other than n, in order, without incoming lists.
OthersBare(nodes, n) ==
  LET other(x) == x.id # n
      kept == SelectSeq(nodes, other)
  IN [i \in 1..Len(kept) |-> Bare(kept[i])]

\* The edges that do not touch n, in order.
EdgesAway(edges, n) ==
  LET away(e) == e.from # n /\ e.to # n
  IN SelectSeq(edges, away)

\* The edge removeNode(n) may add: it runs from a predecessor of n on n's
\* branch to a successor of n on n's branch and obeys the rules of
\* connectNodes with respect to the edges that were kept.
RejoinEdge(e, n) ==
  LET target == GetNode(DAG_STATE.nodes, n)
      source == GetNode(DAG_STATE'.nodes, e.from)
      sink == GetNode(DAG_STATE'.nodes, e.to)
  IN /\ e.from \in NodeIds(DAG_STATE'.nodes)
     /\ e.to \in NodeIds(DAG_STATE'.nodes)
     /\ e.from # e.to
     /\ \E k \in 1..Len(DAG_STATE.edges) :
          DAG_STATE.edges[k].from = e.from /\ DAG_STATE.edges[k].to = n
     /\ \E k \in 1..Len(DAG_STATE.edges) :
          DAG_STATE.edges[k].from = n /\ DAG_STATE.edges[k].to = e.to
     /\ source.branch = target.branch
     /\ sink.branch = target.branch
     /\ \A k \in 1..Len(EdgesAway(DAG_STATE.edges, n)) :
          ~(EdgesAway(DAG_STATE.edges, n)[k].from = e.from
            /\ EdgesAway(DAG_STATE.edges, n)[k].to = e.to)
     /\ Len(e.channels) > 0
     /\ ToSet(e.channels) = ToSet(source.produces) \cap ToSet(sink.consumes)

\* C27: removeNode(n) removes n and every edge and incoming entry that touches
\* n; the other nodes are kept as they are (incoming entries of n apart) and
\* the edges between them are kept, in order; at most one edge is added, from
\* a same-branch predecessor of n to a same-branch successor of n, obeying the
\* rules of connectNodes, and its target gets the incoming entry of that edge.
\* removeNode of an id that is not in the DAG changes nothing.
C27_RemoveNodeFrame ==
  [][ lastCall'.op = "removeNode" =>
        /\ NodeIds(DAG_STATE'.nodes) \subseteq NodeIds(DAG_STATE.nodes)
        /\ RemovedIds = {} => DAG_STATE' = DAG_STATE
        /\ \A n \in RemovedIds :
             LET kept == EdgesAway(DAG_STATE.edges, n)
                 after == DAG_STATE'.edges
             IN /\ RemovedIds = {n}
                /\ \A k \in 1..Len(after) : after[k].from # n /\ after[k].to # n
                /\ \A i \in 1..Len(DAG_STATE'.nodes) :
                     \A k \in 1..Len(DAG_STATE'.nodes[i].incoming) :
                       DAG_STATE'.nodes[i].incoming[k].node # n
                /\ OthersBare(DAG_STATE'.nodes, n) = OthersBare(DAG_STATE.nodes, n)
                /\ Len(after) \in {Len(kept), Len(kept) + 1}
                /\ SubSeq(after, 1, Len(kept)) = kept
                /\ Len(after) = Len(kept) + 1 => RejoinEdge(after[Len(after)], n)
                /\ C20_IncomingMirrorsEdges'
    ]_vars

\* The middle node of a chain has just been removed and its neighbours were
\* joined by a new edge.
C27_Witness ==
  /\ lastCall.op = "removeNode"
  /\ Len(DAG_STATE.nodes) = 2
  /\ NODE_COUNTER = 3
  /\ Len(DAG_STATE.edges) = 1
  /\ DAG_STATE.edges[1].from = DAG_STATE.nodes[1].id
  /\ DAG_STATE.edges[1].to = DAG_STATE.nodes[2].id
  /\ DAG_STATE.nodes[1].order = 0
  /\ DAG_STATE.nodes[2].order = 2

\* ------------------------------------- properties: recordChannelArtifacts
\* The node whose runner recorded a success in the step.
SucceededNow == run'.succeeded \ run.succeeded

\* C28: when the runner of node n records the artifacts of a success against
\* the state the backend reported, exactly the channels n produces and the
\* state has a value for get a record, with n as producer; every other record
\* is unchanged; and nothing changes when n is no longer in the DAG.
C28_RecordChannelArtifactsFrame ==
  [][ (lastCall'.op = "runner" /\ run.pc = "active") =>
        \A n \in SucceededNow :
          IF n \notin NodeIds(DAG_STATE.nodes)
            THEN CHANNEL_ARTIFACTS' = CHANNEL_ARTIFACTS
            ELSE LET hit == ToSet(GetNode(DAG_STATE.nodes, n).produces)
                              \cap SESSION_STATE'.current
                 IN /\ DOMAIN CHANNEL_ARTIFACTS' = (DOMAIN CHANNEL_ARTIFACTS) \cup hit
                    /\ \A ch \in hit :
                         /\ CHANNEL_ARTIFACTS'[ch].nodeId = n
                         /\ CHANNEL_ARTIFACTS'[ch].value = ch
                    /\ \A ch \in (DOMAIN CHANNEL_ARTIFACTS) \ hit :
                         CHANNEL_ARTIFACTS'[ch] = CHANNEL_ARTIFACTS[ch]
    ]_vars

\* A node succeeded against a state that has a value for its channel and
\* overwrote the record another node had left there, while the record of a
\* second channel stayed as it was.
C28_Witness ==
  /\ lastCall.op = "runner"
  /\ \E ch \in DOMAIN CHANNEL_ARTIFACTS, other \in DOMAIN CHANNEL_ARTIFACTS :
       /\ ch # other
       /\ CHANNEL_ARTIFACTS[ch].nodeId \in run.succeeded
       /\ ch \in SESSION_STATE.current
       /\ other \notin SESSION_STATE.current
       /\ CHANNEL_ARTIFACTS[other].nodeId # CHANNEL_ARTIFACTS[ch].nodeId

\* ------------------------------------------- properties: advisory messages
\* FLOW is not empty and every step of it is a single-cell unit.
FlowAllSc == Len(FLOW) > 0 /\ \A k \in 1..Len(FLOW) : StartsWithSc(FLOW[k])

\* The ordering suggestions of validateFlow.
Suggestions == {"Suggestion: Place Merge samples first",
                "Suggestion: Run Remove multi heavy before Remove no heavy"}

\* C29: on the single-cell page a non-empty flow of sc_ units only is valid
\* whatever its order: validateFlow returns ok = true, shows 'Looks good' and
\* returns nothing but ordering suggestions; and runFlow, called while no run
\* is under way, starts the run of that flow by sending the request of its
\* first step.
C29_AdvisoriesNeverBlock ==
  [][ /\ (lastCall'.op = "validateFlow" /\ FlowAllSc) =>
           /\ lastCall'.ret.ok = TRUE
           /\ ToSet(lastCall'.ret.msgs) \subseteq Suggestions
           /\ scDisplay'.validation = "Looks good"
      /\ (lastCall'.op = "runFlow" /\ FlowAllSc /\ ~running) =>
           /\ ScIssued = {[index |-> 0, unitId |-> FLOW[1]]}
           /\ scPending' = scPending \cup ScIssued
           /\ running' = TRUE
           /\ scRun' = [pc |-> "await", index |-> 0, totalSteps |-> Len(FLOW)]
           /\ scDisplay'.validation = "Looks good"
    ]_vars

\* A flow that draws both ordering suggestions has been started.
C29_Witness ==
  /\ page = "sc"
  /\ lastCall.op = "runFlow"
  /\ FLOW = <<"sc_remove_no_heavy", "sc_remove_multi_heavy", "sc_merge_samples">>
  /\ Len(validateFlow(FLOW).msgs) = 2
  /\ scRun.pc = "await" /\ scRun.index = 0
  /\ scPending = {[index |-> 0, unitId |-> "sc_remove_no_heavy"]}

\* ------------------------------------------- properties: progress counters
\* The nodes of the run on branch b that have succeeded.
SucceededOn(b) ==
  {i \in 1..Len(run.nodes) : run.nodes[i].branch = b /\ run.nodes[i].id \in run.succeeded}

\* C30: from the start of a DAG run on, the completed counter is the number
\* of nodes that have succeeded and is at most the node total; and for each
\* of the branches R1 and R2 the completed counter of the branch, which is
\* also what the row of the branch shows, is the number of succeeded nodes on
\* that branch and is at most the total of the branch.
C30_ProgressCounters ==
  run.pc \in {"active", "finished", "failed"} =>
    /\ run.completed = Cardinality(run.succeeded)
    /\ run.completed <= run.total
    /\ run.succeeded \subseteq NodeIds(run.nodes)
    /\ \A b \in ToSet(DAG_BRANCH_KEYS) :
         /\ run.branchCompleted[b] = Cardinality(SucceededOn(b))
         /\ run.branchCompleted[b] <= run.branchTotals[b]
         /\ display.branchRows[b].completed = run.branchCompleted[b]
         /\ display.branchRows[b].total = run.branchTotals[b]

\* A run of four nodes finished: two succeeded on R1, one on R2 and one on
\* a branch that has no counter.
C30_Witness ==
  /\ run.pc = "finished"
  /\ run.completed = 4
  /\ run.branchCompleted["R1"] = 2
  /\ run.branchCompleted["R2"] = 1

\* --------------------------------------------- properties: run termination
\* C31: when every run call that is issued returns, a DAG run that has
\* started ends; when it has ended every node of the run is done, error or
\* blocked, none is running or idle; and when no call failed every node was
\* called and is done.
C31_RunTerminates ==
  /\ [](run.pc = "active" => run.active # {})
  /\ (run.pc = "active") ~> (run.pc \in {"finished", "failed"})
  /\ [](run.pc \in {"finished", "failed"} =>
          /\ \A id \in NodeIds(run.nodes) : StatusOf(id) \in {"done", "error", "blocked"}
          /\ run.active = {}
          /\ run.failed = {} =>
               \A id \in NodeIds(run.nodes) : id \in Issued /\ StatusOf(id) = "done")

\* A run of three nodes has ended with one node done, one failed and one
\* blocked.
C31_Witness ==
  /\ run.pc = "failed"
  /\ Len(run.nodes) = 3
  /\ Cardinality(run.failed) = 1
  /\ Cardinality(run.succeeded) = 1
  /\ \E id \in NodeIds(run.nodes) : StatusOf(id) = "blocked"

\* ------------------------------------------- properties: concurrent calls
\* C32: at every moment of a DAG run, no two nodes whose run calls are in
\* flight are joined by a directed path of the DAG the run was started on.
C32_ConcurrentNodesIndependent ==
  run.pc = "active" =>
    \A a \in run.active : \A b \in run.active :
      b \notin DescendantsOf(a)

\* The calls of two nodes are in flight together after a common predecessor
\* of both succeeded, in a DAG in which a fourth node depends on one of them.
C32_Witness ==
  /\ run.pc = "active"
  /\ \E a \in run.active : \E b \in run.active :
       /\ a # b
       /\ AncestorsOf(a) \cap AncestorsOf(b) \cap run.succeeded # {}
       /\ DescendantsOf(a) # {}

\* ------------------------------------------ properties: overlapping runs
\* The nodes whose run call, issued by the invocation with locals ctx, is in
\* flight.
InFlightOf(ctx) == IF ctx.pc = "active" THEN ctx.active ELSE {}

\* C34: on the bulk page no node has more than one run call in flight, and a
\* node whose run call is in flight has status running, also when
\* runDagPipeline is invoked while an invocation is in progress.
C34_OneCallInFlightPerNode ==
  /\ InFlightOf(run) \cap InFlightOf(rerun) = {}
  /\ \A id \in InFlightOf(run) \cup InFlightOf(rerun) : StatusOf(id) = "running"

\* --------------------------------------------- properties: insertion order
\* C33: after any sequence of addNode and removeNode calls every edge goes
\* from a node to a node that was inserted later (smaller order to larger
\* order), so the graph has no cycle and topoOrder() does not return null.
C33_EdgesFollowInsertionOrder ==
  /\ \A k \in 1..Len(DAG_STATE.edges) :
       /\ DAG_STATE.edges[k].from \in NodeIds(DAG_STATE.nodes)
       /\ DAG_STATE.edges[k].to \in NodeIds(DAG_STATE.nodes)
       /\ GetNode(DAG_STATE.nodes, DAG_STATE.edges[k].from).order
            < GetNode(DAG_STATE.nodes, DAG_STATE.edges[k].to).order
  /\ ~HasCycle(DAG_STATE.edges)
  /\ ~topoOrder(DAG_STATE).null

\* The middle node of a chain was removed and the edge that joins its
\* neighbours runs from order 0 to order 2.
C33_Witness ==
  /\ lastCall.op = "removeNode"
  /\ Len(DAG_STATE.nodes) = 2
  /\ Len(DAG_STATE.edges) = 1
  /\ GetNode(DAG_STATE.nodes, DAG_STATE.edges[1].from).order = 0
  /\ GetNode(DAG_STATE.nodes, DAG_STATE.edges[1].to).order = 2
  /\ topoOrder(DAG_STATE).order = <<DAG_STATE.edges[1].from, DAG_STATE.edges[1].to>>

\* --------------------------------------- properties: the running flag
\* C35: on the single-cell page at most one runFlow execution is active at
\* any time: at most one run request is in flight, an execution that awaits a
\* request has the running flag set, and a call of runFlow made while the
\* flag is set sends no request and changes nothing.
C35_OneRunFlowAtATime ==
  /\ [](/\ Cardinality(scPending) <= 1
        /\ scRun.pc = "await" => running /\ Cardinality(scPending) = 1)
  /\ [][ (lastCall'.op = "runFlow" /\ running) =>
           /\ ScIssued = {}
           /\ UNCHANGED scVars
       ]_vars

\* runFlow was called while the request of the second step of a run was in
\* flight.
C35_Witness ==
  /\ lastCall.op = "runFlow"
  /\ lastCall.issued = {}
  /\ running
  /\ scRun.pc = "await" /\ scRun.index = 1
  /\ \E req \in scPending : req.index = 1

\* C36: on the single-cell page, when every run request returns, the running
\* flag that a runFlow invocation set is cleared again, also when steps are
\* removed or the flow is cleared while a request is in flight.
C36_RunningEventuallyCleared == running ~> ~running

\* ------------------------------------- properties: Validate and Run targets
\* C37: on the bulk page Validate and Run act on the same model: runPipeline
\* executes the linear step list only in states in which validatePipeline
\* validates the step list (the DAG has no nodes), and executes the DAG only
\* in states in which validatePipeline validates the DAG.
C37_ValidateAndRunSameModel ==
  [][ /\ lastCall'.op = "runLinearPipeline" => ~hasNodes(DAG_STATE)
      /\ lastCall'.op = "runDagPipeline" => hasNodes(DAG_STATE)
    ]_vars

\* ------------------------------------- properties: the single-cell session
\* C38: on the single-cell page at most one POST /session/start is issued,
\* whatever the interleaving of the callers of ensureSession, and the session
\* id, once set, never changes.
C38_SessionStartedOnce ==
  /\ [](scSession.posts <= 1)
  /\ [][scSession.SID # 0 => scSession'.SID = scSession.SID]_vars

\* ------------------------------------------------ node ids from randomId()
\* randomId() is `node_` followed by up to six base-36 digits of Math.random():
\* nothing compares the token with the keys DAG_STATE.nodes holds, so a call
\* can return any token, one in use included.
AddNodeRandom(unitId, branch) ==
  /\ NODE_COUNTER < MaxAdds
  /\ \E id \in IdPool :
       LET r == addNode(DAG_STATE, UNIT_META, NODE_COUNTER, unitId, branch, id)
       IN /\ DAG_STATE' = r.dag
          /\ UNIT_META' = r.meta
          /\ NODE_COUNTER' = NODE_COUNTER + 1
          /\ lastCall' = [op |-> "addNode", unitId |-> unitId, id |-> id, ret |-> Undefined]
  /\ UNCHANGED CHANNEL_ARTIFACTS
  /\ UNCHANGED <<runVars, linearVars>>

NextIds ==
  \/ \E u \in Units : \E b \in BranchArgs : AddNodeRandom(u, b)
  \/ AddUnknownNode
  \/ \E id \in IdPool : RemoveNode(id)

SpecIds == Init /\ [][NextIds]_vars

\* C39: an addNode call with a registered unit adds exactly one node, whose id
\* is the id of no node that existed before and whose order is greater than
\* the order of every node that existed before, and leaves every node that
\* existed before as it was; an addNode call with an unregistered unit id
\* changes nothing.
C39_AddNodeAddsOneFreshNode ==
  [][lastCall'.op = "addNode" =>
       IF "unitId" \in DOMAIN lastCall'
         THEN /\ Len(DAG_STATE'.nodes) = Len(DAG_STATE.nodes) + 1
              /\ NewestNode(DAG_STATE').id \notin NodeIds(DAG_STATE.nodes)
              /\ \A i \in 1..Len(DAG_STATE.nodes) :
                    /\ DAG_STATE'.nodes[i] = DAG_STATE.nodes[i]
                    /\ DAG_STATE.nodes[i].order < NewestNode(DAG_STATE').order
         ELSE UNCHANGED dagVars]_vars

\* ------------------------------------ properties: producers of artifacts
\* C40: the producing node every channel artifact record names is a node of
\* the DAG, in every state, the states in which nodes were removed while a
\* DAG run was in progress included.
C40_ArtifactProducersExist ==
  \A ch \in DOMAIN CHANNEL_ARTIFACTS :
    CHANNEL_ARTIFACTS[ch].nodeId \in NodeIds(DAG_STATE.nodes)

\* A run is in progress, a node of it was removed while its call is in flight,
\* and a record of another node is kept.
C40_Witness ==
  /\ run.pc = "active"
  /\ lastCall.op = "removeNode"
  /\ \E id \in run.active : id \notin NodeIds(DAG_STATE.nodes)
  /\ DOMAIN CHANNEL_ARTIFACTS # {}

====
